---- MODULE Spec2Model ----
(***************************************************************************)
(* go-hass-agent: the sensor orchestration core.                           *)
(*                                                                         *)
(*   - SensorController: Start / Stop / StartAll / StopAll over a set of   *)
(*     managed workers (interface in agent/controller, the worker table is *)
(*     built by Agent.newOSController).                                    *)
(*   - Agent.runWorkers: StartAll on every controller, Tracker.Process on  *)
(*     the merged streams, StopAll on every controller after ctx.Done().   *)
(*   - Tracker fan-in and the sensor Registry (sensors/registry.go).       *)
(***************************************************************************)
EXTENDS Naturals, Integers, Sequences, FiniteSets, TLC

\* ------------------------------------------------------------------ bounds
\* The most snapshots one update task of the busiest worker emits.
MaxEmit == 3
\* The most update tasks ever launched for one worker (only a faulty Start
\* launches more than one).
MaxTasks == 2

\* ------------------------------------------------------- the managed workers
\* Controllers handed to runWorkers, and the workers each one manages.
Controllers == {"c1", "c2"}

Managed(c) == IF c = "c1" THEN {"battery", "cpu"} ELSE {"mem"}

Workers == UNION {Managed(c) : c \in Controllers}

\* The snapshots one update task of w emits at most: "cpu" changes often,
\* the other sensors report once.
EmitLimit(w) == IF w = "cpu" THEN MaxEmit ELSE 1

\* A name no controller manages.
UnknownName == "nosuch"

Names == Workers \cup {UnknownName}

\* errors.New("worker already started") / errors.New("unknown worker")
ErrWorkerAlreadyStarted == "worker already started"

ErrUnknownWorker == "unknown worker"

\* The remaining error values of the controller contract.
ErrWorkerStopped == "worker stopped"

ErrWorkerNotRunning == "worker not running"

ErrCouldNotStart == "could not start worker"

ErrStopFailed == "error stopping worker"

NoError == "nil"

VARIABLES
    wstate,     \* wstate[w]: NotStarted | Running | Stopped
    tasks,      \* tasks[w]: the update tasks launched for w, <<[pos, live]>>
    seen,       \* seen[w][i]: times snapshot i of w appeared on the update stream
    merged,     \* merged[c]: workers whose stream is in c's merged stream
    last,       \* the last controller call: its arguments, pre-state and results
    ctxDone,    \* the context handed to runWorkers is cancelled
    rw,         \* runWorkers: [pc, i, todo, spawned, sensorCh]; cancelPc: pc at cancellation
    trk,        \* Tracker.Process: [state, readers, entry]
    mslot,      \* mslot[w]: snapshot held by the controller's merge task of w (0: none)
    rslot,      \* rslot[c]: snapshot held by the Tracker's reader of c's stream
    regDB,      \* the Registry store: [status, kv]; kv[id]: stored bytes (<<>>: no such key)
    log,        \* log[w]: what Process did with each snapshot of w, in order
    proc,       \* proc[g]: goroutine g's position in, and results of, its Registry calls
    wrote,      \* wrote[id]: the writes id's entry has received since the last reset
    mqtt,       \* the MQTT controller: its entities, msgs channel and context
    ag,         \* the Agent: preferences, done channel and the goroutines of Run
    url,        \* generateAPIURL: its arguments and what it returned
    notif,      \* the notifications worker: context, websocket channels, handler
    conf,       \* UpgradeConfig: the stored config and what the call did
    scripts     \* runScripts: the scripts, the scheduler and the streams collected

ctlVars == <<wstate, tasks, seen, merged, last>>

runVars == <<ctxDone, rw, trk, mslot, rslot, regDB, log>>

\* Everything of the sensor pipeline but the Registry store.
\* The parts of the agent outside the sensor pipeline, the Registry, the MQTT
\* controller and Run.
auxVars == <<url, notif, conf, scripts>>

pipeVars == <<wstate, tasks, seen, merged, last, ctxDone, rw, trk, mslot, rslot, log, auxVars>>

extVars == <<proc, wrote, mqtt, ag, auxVars>>

\* The sensor pipeline, the Registry, the MQTT controller and Run.
coreVars == <<wstate, tasks, seen, merged, last, ctxDone, rw, trk, mslot, rslot, regDB, log,
              proc, wrote, mqtt, ag>>

vars == <<wstate, tasks, seen, merged, last, ctxDone, rw, trk, mslot, rslot, regDB, log,
          proc, wrote, mqtt, ag, url, notif, conf, scripts>>

\* ------------------------------------------------------------------ helpers
NoCall == [op |-> "none", ctl |-> "c1", name |-> UnknownName, pre |-> [w \in Workers |-> "NotStarted"],
           err |-> NoError, errOf |-> UnknownName, stopped |-> {}, spawned |-> {},
           ufail |-> {}, sfail |-> {}, order |-> <<>>, list |-> {}]

\* All orders in which a set can be walked (Go map iteration order is unspecified).
RECURSIVE Orders(_)
Orders(S) == IF S = {} THEN {<<>>}
             ELSE UNION {{<<x>> \o o : o \in Orders(S \ {x})} : x \in S}

NewTask == [pos |-> 0, live |-> TRUE]

\* newOSController: every worker whose constructor succeeded is entered with
\* started: false.
newOSController == [w \in Workers |-> "NotStarted"]

\* ------------------------------------------------- SensorController contract
\* Start(ctx, name): the outcome on worker table st of controller c;
\* updErr says whether the worker's Updates(ctx) returns an error.
startNoCheck(st, c, name, updErr) ==
    IF name \notin Managed(c) THEN [err |-> ErrUnknownWorker, st |-> st, spawn |-> FALSE]
    ELSE IF updErr THEN [err |-> ErrCouldNotStart, st |-> st, spawn |-> FALSE]
    ELSE [err |-> NoError, st |-> [st EXCEPT ![name] = "Running"], spawn |-> TRUE]

startRestarts(st, c, name, updErr) ==
    IF name \notin Managed(c) THEN [err |-> ErrUnknownWorker, st |-> st, spawn |-> FALSE]
    ELSE IF st[name] = "Running" THEN [err |-> ErrWorkerAlreadyStarted, st |-> st, spawn |-> FALSE]
    ELSE IF updErr THEN [err |-> ErrCouldNotStart, st |-> st, spawn |-> FALSE]
    ELSE [err |-> NoError, st |-> [st EXCEPT ![name] = "Running"], spawn |-> TRUE]

startResult(st, c, name, updErr) ==
    IF name \notin Managed(c) THEN [err |-> ErrUnknownWorker, st |-> st, spawn |-> FALSE]
    ELSE IF st[name] = "Running" THEN [err |-> ErrWorkerAlreadyStarted, st |-> st, spawn |-> FALSE]
    ELSE IF st[name] = "Stopped" THEN [err |-> ErrWorkerStopped, st |-> st, spawn |-> FALSE]
    ELSE IF updErr THEN [err |-> ErrCouldNotStart, st |-> st, spawn |-> FALSE]
    ELSE [err |-> NoError, st |-> [st EXCEPT ![name] = "Running"], spawn |-> TRUE]

\* Stop(name): the outcome; stopErr says whether the worker's Stop() returns
\* an error. called says whether the worker's Stop() was invoked.
stopAnyState(st, c, name, stopErr) ==
    IF name \notin Managed(c) THEN [err |-> ErrUnknownWorker, st |-> st, called |-> FALSE]
    ELSE [err |-> IF stopErr THEN ErrStopFailed ELSE NoError,
          st |-> [st EXCEPT ![name] = "Stopped"], called |-> TRUE]

stopResult(st, c, name, stopErr) ==
    IF name \notin Managed(c) THEN [err |-> ErrUnknownWorker, st |-> st, called |-> FALSE]
    ELSE IF st[name] # "Running" THEN [err |-> ErrWorkerNotRunning, st |-> st, called |-> FALSE]
    ELSE [err |-> IF stopErr THEN ErrStopFailed ELSE NoError,
          st |-> [st EXCEPT ![name] = "Stopped"], called |-> TRUE]

\* StartAll(ctx): Start on every managed worker that is not Running, walked
\* in order; failures are collected, never fatal.
RECURSIVE startAllFrom(_, _, _, _, _)
startAllFrom(order, c, ufail, st, acc) ==
    IF order = <<>> THEN [st |-> st, spawned |-> acc.spawned, err |-> acc.err]
    ELSE LET w == Head(order)
             r == startResult(st, c, w, w \in ufail)
         IN IF st[w] = "Running"
            THEN startAllFrom(Tail(order), c, ufail, st, acc)
            ELSE startAllFrom(Tail(order), c, ufail, r.st,
                    [spawned |-> IF r.spawn THEN acc.spawned \cup {w} ELSE acc.spawned,
                     err |-> IF acc.err = NoError THEN r.err ELSE acc.err])

RECURSIVE startAllFailFast(_, _, _, _, _)
startAllFailFast(order, c, ufail, st, acc) ==
    IF order = <<>> \/ acc.err # NoError
    THEN [st |-> st, spawned |-> acc.spawned, err |-> acc.err]
    ELSE LET w == Head(order)
             r == startResult(st, c, w, w \in ufail)
         IN IF st[w] = "Running"
            THEN startAllFailFast(Tail(order), c, ufail, st, acc)
            ELSE startAllFailFast(Tail(order), c, ufail, r.st,
                    [spawned |-> IF r.spawn THEN acc.spawned \cup {w} ELSE acc.spawned,
                     err |-> r.err])

startAllResultFailFast(st, c, order, ufail) ==
    startAllFailFast(order, c, ufail, st, [spawned |-> {}, err |-> NoError])

startAllResult(st, c, order, ufail) ==
    startAllFrom(order, c, ufail, st, [spawned |-> {}, err |-> NoError])

\* StopAll(): Stop on every Running worker, walked in order; the first error
\* is kept and the walk goes on.
RECURSIVE stopAllFrom(_, _, _, _, _)
stopAllFrom(order, c, sfail, st, acc) ==
    IF order = <<>> THEN [st |-> st, stopped |-> acc.stopped, err |-> acc.err, errOf |-> acc.errOf]
    ELSE LET w == Head(order)
             r == stopResult(st, c, w, w \in sfail)
         IN IF st[w] # "Running"
            THEN stopAllFrom(Tail(order), c, sfail, st, acc)
            ELSE stopAllFrom(Tail(order), c, sfail, r.st,
                    [stopped |-> IF r.called THEN acc.stopped \cup {w} ELSE acc.stopped,
                     err |-> IF acc.err = NoError THEN r.err ELSE acc.err,
                     errOf |-> IF acc.err = NoError /\ r.err # NoError THEN w ELSE acc.errOf])

RECURSIVE stopAllFailFast(_, _, _, _, _)
stopAllFailFast(order, c, sfail, st, acc) ==
    IF order = <<>> \/ acc.err # NoError
    THEN [st |-> st, stopped |-> acc.stopped, err |-> acc.err, errOf |-> acc.errOf]
    ELSE LET w == Head(order)
             r == stopResult(st, c, w, w \in sfail)
         IN IF st[w] # "Running"
            THEN stopAllFailFast(Tail(order), c, sfail, st, acc)
            ELSE stopAllFailFast(Tail(order), c, sfail, r.st,
                    [stopped |-> IF r.called THEN acc.stopped \cup {w} ELSE acc.stopped,
                     err |-> r.err,
                     errOf |-> IF r.err # NoError THEN w ELSE acc.errOf])

stopAllResultFailFast(st, c, order, sfail) ==
    stopAllFailFast(order, c, sfail, st, [stopped |-> {}, err |-> NoError, errOf |-> UnknownName])

RECURSIVE stopAllNoSkip(_, _, _, _, _)
stopAllNoSkip(order, c, sfail, st, acc) ==
    IF order = <<>> THEN [st |-> st, stopped |-> acc.stopped, err |-> acc.err, errOf |-> acc.errOf]
    ELSE LET w == Head(order)
             r == stopResult(st, c, w, w \in sfail)
         IN stopAllNoSkip(Tail(order), c, sfail, r.st,
                    [stopped |-> IF r.called THEN acc.stopped \cup {w} ELSE acc.stopped,
                     err |-> IF acc.err = NoError THEN r.err ELSE acc.err,
                     errOf |-> IF acc.err = NoError /\ r.err # NoError THEN w ELSE acc.errOf])

stopAllResultNoSkip(st, c, order, sfail) ==
    stopAllNoSkip(order, c, sfail, st, [stopped |-> {}, err |-> NoError, errOf |-> UnknownName])

stopAllResult(st, c, order, sfail) ==
    stopAllFrom(order, c, sfail, st, [stopped |-> {}, err |-> NoError, errOf |-> UnknownName])

\* The update tasks after a call: one new task per worker in spawned; the
\* tasks of a worker whose Stop() returned nil have ended.
tasksAfter(ts, spawned, ended) ==
    [w \in Workers |->
        LET kept == IF w \in ended
                    THEN [k \in 1..Len(ts[w]) |-> [ts[w][k] EXCEPT !.live = FALSE]]
                    ELSE ts[w]
        IN IF w \in spawned THEN Append(kept, NewTask) ELSE kept]

\* ActiveWorkers: the names of the managed workers that are running now.
ActiveWorkers(st, c) == {w \in Managed(c) : st[w] = "Running"}

inactiveOnlyStopped(st, c) == {w \in Managed(c) : st[w] = "Stopped"}

\* InactiveWorkers: the names of the managed workers that are not running,
\* never started or stopped alike.
InactiveWorkers(st, c) == {w \in Managed(c) : st[w] # "Running"}

\* ---------------------------------------------- the controller, call by call
Start(c, name) ==
    \E updErr \in BOOLEAN :
        LET r == startResult(wstate, c, name, updErr)
        IN /\ name \in Workers => Len(tasks[name]) < MaxTasks
           /\ wstate' = r.st
           /\ tasks' = tasksAfter(tasks, IF r.spawn THEN {name} ELSE {}, {})
           /\ last' = [NoCall EXCEPT !.op = "Start", !.ctl = c, !.name = name, !.pre = wstate,
                          !.err = r.err, !.spawned = IF r.spawn THEN {name} ELSE {},
                          !.ufail = IF updErr THEN {name} ELSE {}]
           /\ UNCHANGED <<extVars, seen, merged, runVars>>

Stop(c, name) ==
    \E stopErr \in BOOLEAN :
        LET r == stopResult(wstate, c, name, stopErr)
        IN /\ wstate' = r.st
           /\ tasks' = tasksAfter(tasks, {}, IF r.called /\ ~stopErr THEN {name} ELSE {})
           /\ last' = [NoCall EXCEPT !.op = "Stop", !.ctl = c, !.name = name, !.pre = wstate,
                          !.err = r.err, !.stopped = IF r.called THEN {name} ELSE {},
                          !.sfail = IF stopErr THEN {name} ELSE {}]
           /\ UNCHANGED <<extVars, seen, merged, runVars>>

StartAll(c) ==
    \E order \in Orders(Managed(c)), ufail \in SUBSET {w \in Managed(c) : wstate[w] = "NotStarted"} :
        LET r == startAllResult(wstate, c, order, ufail)
        IN /\ \A w \in Managed(c) : Len(tasks[w]) < MaxTasks
           /\ wstate' = r.st
           /\ tasks' = tasksAfter(tasks, r.spawned, {})
           /\ merged' = [merged EXCEPT ![c] = r.spawned]
           /\ last' = [NoCall EXCEPT !.op = "StartAll", !.ctl = c, !.pre = wstate,
                          !.err = r.err, !.spawned = r.spawned, !.ufail = ufail,
                          !.order = order]
           /\ UNCHANGED <<extVars, seen, runVars>>

StopAll(c) ==
    \E order \in Orders(Managed(c)), sfail \in SUBSET {w \in Managed(c) : wstate[w] = "Running"} :
        LET r == stopAllResult(wstate, c, order, sfail)
        IN /\ wstate' = r.st
           /\ tasks' = tasksAfter(tasks, {}, r.stopped \ sfail)
           /\ last' = [NoCall EXCEPT !.op = "StopAll", !.ctl = c, !.pre = wstate,
                          !.err = r.err, !.errOf = r.errOf, !.stopped = r.stopped,
                          !.sfail = sfail, !.order = order]
           /\ UNCHANGED <<extVars, seen, merged, runVars>>

\* The two introspection calls: they answer from the worker table and write
\* nothing.
CallActiveWorkers(c) ==
    /\ last' = [NoCall EXCEPT !.op = "ActiveWorkers", !.ctl = c, !.pre = wstate,
                   !.list = ActiveWorkers(wstate, c)]
    /\ UNCHANGED <<extVars, wstate, tasks, seen, merged, runVars>>

CallInactiveWorkers(c) ==
    /\ last' = [NoCall EXCEPT !.op = "InactiveWorkers", !.ctl = c, !.pre = wstate,
                   !.list = InactiveWorkers(wstate, c)]
    /\ UNCHANGED <<extVars, wstate, tasks, seen, merged, runVars>>

\* A live update task of w pushes its next snapshot onto the update stream,
\* whose reader takes it.
TaskEmit(w) ==
    \E k \in 1..Len(tasks[w]) :
        /\ tasks[w][k].live
        /\ tasks[w][k].pos < EmitLimit(w)
        /\ tasks' = [tasks EXCEPT ![w][k].pos = @ + 1]
        /\ seen' = [seen EXCEPT ![w][tasks[w][k].pos + 1] = @ + 1]
        /\ UNCHANGED <<extVars, wstate, merged, last, runVars>>

\* ------------------------------------------------------------ the Registry
\* The sensor of each worker (one stable ID per worker).
SensorID(w) == IF w = "battery" THEN "battery_level"
               ELSE IF w = "cpu" THEN "cpu_pct" ELSE "mem_used"

IDs == {SensorID(w) : w \in Workers}

CtlOf(w) == CHOOSE c \in Controllers : w \in Managed(c)

\* badger.ErrKeyNotFound
ErrKeyNotFound == "Key not found"

\* A key the store does not hold.
NoValue == <<>>

\* json.Marshal / json.Unmarshal of registryValues: the two flags, in field
\* order.
MarshalSwapped(values) == <<values.Disabled, values.Registered>>

Marshal(values) == <<values.Registered, values.Disabled>>

Unmarshal(val) == [Registered |-> val[1], Disabled |-> val[2]]

\* &registryValues{}: the zero value Get starts from.
zeroValues == [Registered |-> FALSE, Disabled |-> FALSE]

newRegistryValues == [Disabled |-> FALSE, Registered |-> FALSE]

newRegistryEntry(id) == [id |-> id, values |-> newRegistryValues]

\* What OpenSensorRegistry hands back: a registry over an open store, or
\* nil when the path or the store cannot be opened; the store is closed once
\* ctx is done.
StoreOpen == "open"

StoreClosed == "closed"

StoreNil == "nil"

\* With the store come two goroutines: gc, the ticker loop that runs the
\* value log GC, and the one that closes the store once ctx is done.
\* gcOnClosed: a GC pass has run on the closed store.
OpenSensorRegistry(opened) ==
    [status |-> IF opened THEN StoreOpen ELSE StoreNil,
     kv |-> [id \in IDs |-> NoValue],
     ctxDone |-> FALSE,
     gc |-> IF opened THEN "ticker" ELSE "none",
     gcOnClosed |-> FALSE,
     closes |-> 0,
     closeCalls |-> 0,
     closer |-> IF opened THEN "waiting" ELSE "none"]

\* badger.ErrDBClosed
ErrDBClosed == "DB Closed"

\* reg.db read through a nil *sensorRegistry.
ErrNilDeref == "panic: nil pointer dereference"

\* The error db.View / db.Update return before running the transaction.
dbErr(db) ==
    IF db.status = StoreNil THEN ErrNilDeref
    ELSE IF db.status = StoreClosed THEN ErrDBClosed
    ELSE NoError

\* sensorRegistry.Get: (state, err).
GetNoUnmarshal(db, id) ==
    IF dbErr(db) # NoError THEN [values |-> zeroValues, err |-> dbErr(db)]
    ELSE IF db.kv[id] = NoValue THEN [values |-> zeroValues, err |-> ErrKeyNotFound]
    ELSE [values |-> zeroValues, err |-> NoError]

GetNoNotFound(db, id) ==
    IF dbErr(db) # NoError THEN [values |-> zeroValues, err |-> dbErr(db)]
    ELSE IF db.kv[id] = NoValue THEN [values |-> zeroValues, err |-> NoError]
    ELSE [values |-> Unmarshal(db.kv[id]), err |-> NoError]

Get(db, id) ==
    IF dbErr(db) # NoError THEN [values |-> zeroValues, err |-> dbErr(db)]
    ELSE IF db.kv[id] = NoValue THEN [values |-> zeroValues, err |-> ErrKeyNotFound]
    ELSE [values |-> Unmarshal(db.kv[id]), err |-> NoError]

\* sensorRegistry.Set: the store after the write, and the error returned.
SetTruncates(db, id, values) ==
    IF dbErr(db) # NoError THEN db
    ELSE [db EXCEPT !.kv = [i \in DOMAIN db.kv |-> IF i = id THEN Marshal(values) ELSE NoValue]]

Set(db, id, values) ==
    IF dbErr(db) # NoError THEN db
    ELSE [db EXCEPT !.kv[id] = Marshal(values)]

SetErr(db, id, values) == dbErr(db)

\* sensorRegistry.Update
Update(db, entry) == Set(db, entry.id, entry.values)

\* Add writes the defaults only when the lookup reported the key missing.
addWritesAlways(got) == got.err # ErrNilDeref

addWritesNever(got) == FALSE

addWrites(got) == got.err = ErrKeyNotFound

\* sensorRegistry.Add: the store after the call, the entry returned, and
\* whether the call panicked instead of returning.
Add(db, id) ==
    LET entry == newRegistryEntry(id)
        got == Get(db, entry.id)
    IN IF got.err = ErrNilDeref
       THEN [db |-> db, entry |-> entry, panic |-> TRUE]
       ELSE IF got.err # NoError
       THEN IF addWrites(got)
            THEN [db |-> Set(db, entry.id, entry.values), entry |-> entry, panic |-> FALSE]
            ELSE [db |-> db, entry |-> entry, panic |-> FALSE]
       ELSE [db |-> db, entry |-> [entry EXCEPT !.values = got.values], panic |-> FALSE]

\* registryEntry.IsDisabled / SetDisabled / IsRegistered / SetRegistered
IsDisabled(e) == e.values.Disabled

SetDisabled(e, state) == [e EXCEPT !.values.Disabled = state]

IsRegistered(e) == e.values.Registered

SetRegisteredWrongField(e, state) == [e EXCEPT !.values.Disabled = state]

SetRegistered(e, state) == [e EXCEPT !.values.Registered = state]

\* ------------------------------------------------------------- runWorkers
\* controllers ...SensorController, in argument order.
CtlOrder == <<"c1", "c2">>

Range(f) == {f[i] : i \in DOMAIN f}

\* sensorCh = append(sensorCh, ch)
appendFirstOnly(sensorCh, c) == IF sensorCh = <<>> THEN Append(sensorCh, c) ELSE sensorCh

appendCh(sensorCh, c) == Append(sensorCh, c)

\* for _, controller := range controllers { controller.StopAll() }
stopFirstOnly == <<CtlOrder[1]>>

stopAllTargets == CtlOrder

NoEntry == [id |-> "", values |-> zeroValues]

InitRunVars ==
    /\ ctxDone = FALSE
    /\ rw = [pc |-> "StartAll", i |-> 1, todo |-> Managed(CtlOrder[1]), spawned |-> {},
             sensorCh |-> <<>>, cancelPc |-> "", stopCalls |-> <<>>, stopErrs |-> {},
             err |-> FALSE, startErrs |-> {}]
    /\ trk = [state |-> "idle", readers |-> {}, live |-> {}, busy |-> FALSE, entry |-> NoEntry,
              w |-> ""]
    /\ mslot = [w \in Workers |-> 0]
    /\ rslot = [c \in Controllers |-> <<>>]
    /\ log = [w \in Workers |-> <<>>]

\* controller.StartAll(ctx), one worker at a time: Start on the next managed
\* worker that is not Running.
RwStartAllStep ==
    /\ rw.pc = "StartAll"
    /\ \E w \in rw.todo, updErr \in BOOLEAN :
          LET c == CtlOrder[rw.i]
              r == startResult(wstate, c, w, updErr)
              go == wstate[w] # "Running" /\ r.spawn
          IN /\ wstate' = IF wstate[w] = "Running" THEN wstate ELSE r.st
             /\ tasks' = tasksAfter(tasks, IF go THEN {w} ELSE {}, {})
             /\ rw' = [rw EXCEPT !.todo = @ \ {w},
                                 !.spawned = IF go THEN @ \cup {w} ELSE @,
                                 !.err = @ \/ (wstate[w] # "Running" /\ r.err # NoError)]
    /\ UNCHANGED <<extVars, seen, merged, last, ctxDone, trk, mslot, rslot, regDB, log>>

\* if err != nil { warn }; sensorCh = append(sensorCh, ch): the loop goes on
\* to the next controller whatever StartAll returned.
startLoopBreak(i, err) == IF err THEN Len(CtlOrder) + 1 ELSE i + 1

startLoopNext(i, err) == i + 1

\* StartAll returns the merged stream; runWorkers appends it and goes on to
\* the next controller.
RwStartAllReturn ==
    /\ rw.pc = "StartAll"
    /\ rw.todo = {}
    /\ LET c == CtlOrder[rw.i]
           next == startLoopNext(rw.i, rw.err)
           errs == IF rw.err THEN rw.startErrs \cup {c} ELSE rw.startErrs
       IN /\ merged' = [merged EXCEPT ![c] = rw.spawned]
          /\ rw' = IF next <= Len(CtlOrder)
                   THEN [rw EXCEPT !.i = next, !.todo = Managed(CtlOrder[next]),
                                   !.spawned = {}, !.sensorCh = appendCh(@, c),
                                   !.err = FALSE, !.startErrs = errs]
                   ELSE [rw EXCEPT !.pc = "Process", !.spawned = {},
                                   !.sensorCh = appendCh(@, c),
                                   !.err = FALSE, !.startErrs = errs]
    /\ UNCHANGED <<extVars, wstate, tasks, seen, last, ctxDone, trk, mslot, rslot, regDB, log>>

\* go trk.Process(ctx, reg, sensorCh...): one reader per stream.
RwProcess ==
    /\ rw.pc = "Process"
    /\ trk' = [trk EXCEPT !.state = "running", !.readers = Range(rw.sensorCh),
                          !.live = Range(rw.sensorCh)]
    /\ rw' = [rw EXCEPT !.pc = "Wait", !.i = 1]
    /\ UNCHANGED <<extVars, ctlVars, ctxDone, mslot, rslot, regDB, log>>

\* if err := controller.StopAll(); err != nil { log }: the loop goes on to
\* the next controller whatever StopAll returned.
stopLoopBreak(i, err) == IF err # NoError THEN Len(stopAllTargets) + 1 ELSE i + 1

stopLoopNext(i, err) == i + 1

\* <-ctx.Done(), then StopAll on every controller.
RwStopAll ==
    /\ rw.pc = "Wait"
    /\ ctxDone
    /\ IF rw.i > Len(stopAllTargets)
       THEN /\ rw' = [rw EXCEPT !.pc = "Done"]
            /\ UNCHANGED <<extVars, wstate, tasks>>
       ELSE \E order \in Orders(Managed(stopAllTargets[rw.i])),
               sfail \in SUBSET {w \in Managed(stopAllTargets[rw.i]) : wstate[w] = "Running"} :
               LET r == stopAllResult(wstate, stopAllTargets[rw.i], order, sfail)
               IN /\ wstate' = r.st
                  /\ tasks' = tasksAfter(tasks, {}, r.stopped \ sfail)
                  /\ rw' = [rw EXCEPT !.i = stopLoopNext(@, r.err),
                                      !.stopCalls = Append(@, stopAllTargets[rw.i]),
                                      !.stopErrs = IF r.err # NoError
                                                   THEN @ \cup {stopAllTargets[rw.i]} ELSE @]
    /\ UNCHANGED <<extVars, seen, merged, last, ctxDone, trk, mslot, rslot, regDB, log>>

\* The root context is cancelled.
Cancel ==
    /\ ~ctxDone
    /\ ctxDone' = TRUE
    /\ rw' = [rw EXCEPT !.cancelPc = rw.pc]
    /\ UNCHANGED <<extVars, ctlVars, trk, mslot, rslot, regDB, log>>

\* Worker contract: the update stream of a task closes once ctx is cancelled.
TaskExit(w) ==
    /\ ctxDone
    /\ \E k \in 1..Len(tasks[w]) :
          /\ tasks[w][k].live
          /\ tasks' = [tasks EXCEPT ![w][k].live = FALSE]
    /\ UNCHANGED <<extVars, wstate, seen, merged, last, runVars>>

\* ------------------------------------------------------- fan-in and Tracker
\* A live update task hands its next snapshot to the controller's merge task.
WorkerSend(w) ==
    /\ w \in merged[CtlOf(w)]
    /\ mslot[w] = 0
    /\ \E k \in 1..Len(tasks[w]) :
          /\ tasks[w][k].live
          /\ tasks[w][k].pos < EmitLimit(w)
          /\ tasks' = [tasks EXCEPT ![w][k].pos = @ + 1]
          /\ mslot' = [mslot EXCEPT ![w] = tasks[w][k].pos + 1]
    /\ UNCHANGED <<extVars, wstate, seen, merged, last, ctxDone, rw, trk, rslot, regDB, log>>

\* The merge task of w forwards as soon as w has a snapshot for it; it waits
\* for no other worker of the controller.
mergeReadyAll(ms, w) == \A v \in Managed(CtlOf(w)) : ms[v] # 0

mergeReady(ms, w) == ms[w] # 0

\* The merge task of w hands its snapshot to the Tracker's reader of the
\* controller's merged stream.
MergeForward(w) ==
    /\ mergeReady(mslot, w)
    /\ trk.state = "running"
    /\ CtlOf(w) \in trk.readers
    /\ rslot[CtlOf(w)] = <<>>
    /\ rslot' = [rslot EXCEPT ![CtlOf(w)] = <<w, mslot[w]>>]
    /\ mslot' = [mslot EXCEPT ![w] = 0]
    /\ UNCHANGED <<extVars, ctlVars, ctxDone, rw, trk, regDB, log>>

\* What Process does with a snapshot of id: register an ID the Registry has
\* no readable entry for, drop a disabled one, update otherwise.
classify(db, id) ==
    LET got == Get(db, id)
    IN IF got.err # NoError THEN "register"
       ELSE IF got.values.Disabled THEN "drop"
       ELSE "update"

\* A call of the remote publisher that fails is reported and Process carries
\* on with the next snapshot.
afterPublishFailFast(state, ok) == IF ok THEN state ELSE "stopped"

afterPublish(state, ok) == state

\* The reader of c's stream passes its snapshot to the merge point, where
\* Process looks the ID up and forwards or drops the snapshot; pub is what the
\* remote publisher answers to an update ("none": the answer is not looked at).
TrackerProcessPub(c, pub) ==
    /\ trk.state = "running"
    /\ ~trk.busy
    /\ rslot[c] # <<>>
    /\ LET w == rslot[c][1]
           id == SensorID(w)
           kind == classify(regDB, id)
           added == Add(regDB, id)
       IN /\ log' = [log EXCEPT ![w] = Append(@,
                        [idx |-> rslot[c][2], kind |-> kind,
                         res |-> IF kind = "register" THEN "pending"
                                 ELSE IF kind = "update" THEN pub ELSE "none"])]
          /\ regDB' = IF kind = "register" THEN added.db ELSE regDB
          /\ trk' = IF kind = "register"
                    THEN [trk EXCEPT !.busy = TRUE, !.entry = added.entry, !.w = w]
                    ELSE IF kind = "update"
                    THEN [trk EXCEPT !.state = afterPublish(@, pub # "failed")]
                    ELSE trk
    /\ rslot' = [rslot EXCEPT ![c] = <<>>]
    /\ UNCHANGED <<extVars, ctlVars, ctxDone, rw, mslot>>

TrackerProcess(c) == TrackerProcessPub(c, "none")

\* The remote "register new sensor" call returns; on success the entry is
\* marked registered.
RegisterDone ==
    /\ trk.busy
    /\ \E ok \in BOOLEAN :
          /\ regDB' = IF ok THEN Update(regDB, SetRegistered(trk.entry, TRUE)) ELSE regDB
          /\ log' = [log EXCEPT ![trk.w][Len(log[trk.w])].res = IF ok THEN "ok" ELSE "failed"]
          /\ trk' = [trk EXCEPT !.busy = FALSE, !.entry = NoEntry, !.w = "",
                                !.state = afterPublish(@, ok)]
    /\ UNCHANGED <<extVars, ctlVars, ctxDone, rw, mslot, rslot>>

\* The merged stream of c is closed: every update task behind it has ended
\* and the merge tasks have nothing left to forward.
StreamClosed(c) ==
    \A w \in merged[c] : mslot[w] = 0 /\ \A k \in 1..Len(tasks[w]) : ~tasks[w][k].live

\* A reader ends when its source stream is closed and it holds no snapshot,
\* or when Process is winding up after the cancellation.
readerExitsOnCloseOnly(closed, held, stopping) == closed /\ ~held

readerExits(closed, held, stopping) == stopping \/ (closed /\ ~held)

ReaderExit(c) ==
    /\ trk.state \in {"running", "stopping"}
    /\ c \in trk.live
    /\ readerExits(StreamClosed(c), rslot[c] # <<>>, trk.state = "stopping")
    /\ trk' = [trk EXCEPT !.live = @ \ {c}]
    /\ UNCHANGED <<extVars, ctlVars, ctxDone, rw, mslot, rslot, regDB, log>>

\* Process sees the cancellation and stops taking snapshots.
TrackerCtxDone ==
    /\ ctxDone
    /\ trk.state = "running"
    /\ ~trk.busy
    /\ trk' = [trk EXCEPT !.state = "stopping"]
    /\ UNCHANGED <<extVars, ctlVars, ctxDone, rw, mslot, rslot, regDB, log>>

\* Process returns once its readers have ended.
TrackerExit ==
    /\ trk.state \in {"running", "stopping"}
    /\ ~trk.busy
    /\ trk.live = {}
    /\ trk' = [trk EXCEPT !.state = "stopped"]
    /\ UNCHANGED <<extVars, ctlVars, ctxDone, rw, mslot, rslot, regDB, log>>

\* Registry.SetDisabled(id, state) from outside the Tracker (the user
\* disables or re-enables a sensor that has an entry).
UserSetDisabled(id, state) ==
    /\ Get(regDB, id).err = NoError
    /\ Get(regDB, id).values.Disabled # state
    /\ regDB' = Update(regDB, SetDisabled([id |-> id, values |-> Get(regDB, id).values], state))
    /\ UNCHANGED <<extVars, ctlVars, ctxDone, rw, trk, mslot, rslot, log>>

\* -------------------------------------------- the Registry, called concurrently
\* Calls the first goroutine makes; the second makes one.
MaxCalls == 2

\* The goroutines that call the Registry.
Goroutines == {"g1", "g2"}

\* The sensor IDs they call it with.
RegIDs == {"cpu_pct", "mem_used"}

\* Every registryValues.
AllValues == [Registered : BOOLEAN, Disabled : BOOLEAN]

NoWrite == [last |-> "none", values |-> zeroValues, sets |-> FALSE, adds |-> FALSE]

InitProc ==
    /\ proc = [g \in Goroutines |->
                 [pc |-> "idle", op |-> "none", id |-> "cpu_pct", entry |-> NoEntry,
                  values |-> zeroValues, err |-> NoError, n |-> 0, set |-> FALSE]]
    /\ wrote = [id \in IDs |-> NoWrite]

\* A panic ends the program, and with it every goroutine.
Alive == \A g \in Goroutines : proc[g].pc # "panicked"

CallLimit(g) == IF g = "g1" THEN MaxCalls ELSE 1

CanCall(g) == Alive /\ proc[g].pc = "idle" /\ proc[g].n < CallLimit(g)

\* pc after a call that returned err.
pcAfter(err) == IF err = ErrNilDeref THEN "panicked" ELSE "idle"

\* g calls Get(id).
RegGet(g, id) ==
    /\ CanCall(g)
    /\ LET got == Get(regDB, id)
       IN proc' = [proc EXCEPT ![g] = [@ EXCEPT !.pc = pcAfter(got.err), !.op = "Get", !.id = id,
                                                !.values = got.values, !.err = got.err,
                                                !.n = @ + 1, !.set = FALSE]]
    /\ UNCHANGED <<pipeVars, regDB, wrote, mqtt, ag>>

\* g calls Set(id, values).
RegSet(g, id, values) ==
    /\ CanCall(g)
    /\ LET err == SetErr(regDB, id, values)
       IN /\ proc' = [proc EXCEPT ![g] = [@ EXCEPT !.pc = pcAfter(err), !.op = "Set", !.id = id,
                                                   !.values = values, !.err = err,
                                                   !.n = @ + 1, !.set = FALSE]]
          /\ wrote' = IF err = NoError
                      THEN [wrote EXCEPT ![id] = [@ EXCEPT !.last = "Set", !.values = values,
                                                           !.sets = TRUE]]
                      ELSE wrote
    /\ regDB' = Set(regDB, id, values)
    /\ UNCHANGED <<pipeVars, mqtt, ag>>

\* g changes a flag of the entry an Add returned to it and calls Update.
RegUpdate(g, flag, state) ==
    /\ CanCall(g)
    /\ proc[g].entry # NoEntry
    /\ LET entry == IF flag = "registered" THEN SetRegistered(proc[g].entry, state)
                    ELSE SetDisabled(proc[g].entry, state)
           err == SetErr(regDB, entry.id, entry.values)
       IN /\ proc' = [proc EXCEPT ![g] = [@ EXCEPT !.pc = pcAfter(err), !.op = "Update",
                                                   !.id = entry.id, !.entry = entry,
                                                   !.values = entry.values, !.err = err,
                                                   !.n = @ + 1, !.set = FALSE]]
          /\ wrote' = IF err = NoError
                      THEN [wrote EXCEPT ![entry.id] = [@ EXCEPT !.last = "Update",
                                                                 !.values = entry.values,
                                                                 !.sets = TRUE]]
                      ELSE wrote
          /\ regDB' = Update(regDB, entry)
    /\ UNCHANGED <<pipeVars, mqtt, ag>>

\* g calls Add(id): the lookup. A found entry, or a lookup that failed for
\* another reason than a missing key, ends the call.
RegAddGet(g, id) ==
    /\ CanCall(g)
    /\ LET entry == newRegistryEntry(id)
           got == Get(regDB, entry.id)
           returns == got.err # ErrNilDeref /\ ~addWrites(got)
       IN /\ proc' = [proc EXCEPT ![g] =
                        [@ EXCEPT !.pc = IF addWrites(got) THEN "addSet" ELSE pcAfter(got.err),
                                  !.op = "Add", !.id = id,
                                  !.entry = IF got.err = NoError
                                            THEN [entry EXCEPT !.values = got.values]
                                            ELSE entry,
                                  !.values = got.values, !.err = got.err,
                                  !.n = @ + 1, !.set = FALSE]]
          /\ wrote' = IF returns /\ got.err \in {NoError, ErrKeyNotFound}
                      THEN [wrote EXCEPT ![id].adds = TRUE]
                      ELSE wrote
    /\ UNCHANGED <<pipeVars, regDB, mqtt, ag>>

\* Add, the key having been missing: the write of the defaults, in a
\* transaction of its own. Its error is logged, and the entry returned.
RegAddSet(g) ==
    /\ Alive
    /\ proc[g].pc = "addSet"
    /\ LET entry == proc[g].entry
           err == SetErr(regDB, entry.id, entry.values)
       IN /\ proc' = [proc EXCEPT ![g] = [@ EXCEPT !.pc = "idle", !.set = TRUE,
                                                   !.err = IF err # NoError THEN err ELSE @]]
          /\ wrote' = IF err = NoError
                      THEN [wrote EXCEPT ![entry.id] = [@ EXCEPT !.last = "Add",
                                                                 !.values = entry.values,
                                                                 !.adds = TRUE]]
                      ELSE wrote
          /\ regDB' = Set(regDB, entry.id, entry.values)
    /\ UNCHANGED <<pipeVars, mqtt, ag>>

\* The context given to OpenSensorRegistry is cancelled.
RegCancel ==
    /\ Alive
    /\ ~regDB.ctxDone
    /\ regDB' = [regDB EXCEPT !.ctxDone = TRUE]
    /\ UNCHANGED <<pipeVars, proc, wrote, mqtt, ag>>

\* <-ctx.Done(); db.Close()
RegClose ==
    /\ Alive
    /\ regDB.ctxDone
    /\ regDB.closer = "waiting"
    /\ regDB' = [regDB EXCEPT !.status = StoreClosed, !.closes = @ + 1, !.closer = "returned"]
    /\ UNCHANGED <<pipeVars, proc, wrote, mqtt, ag>>

\* Calls of CloseSensorRegistry.
MaxCloseCalls == 1

\* CloseSensorRegistry: reg.db.Close(), whatever the state of the store.
CloseSensorRegistry ==
    /\ Alive
    /\ regDB.status # StoreNil
    /\ regDB.closeCalls < MaxCloseCalls
    /\ regDB' = [regDB EXCEPT !.status = StoreClosed, !.closes = @ + 1, !.closeCalls = @ + 1]
    /\ UNCHANGED <<pipeVars, proc, wrote, mqtt, ag>>

\* The GC goroutine: for range ticker.C. The loop has no other exit.
GCTick ==
    /\ Alive
    /\ regDB.gc = "ticker"
    /\ regDB' = [regDB EXCEPT !.gc = "pass"]
    /\ UNCHANGED <<pipeVars, proc, wrote, mqtt, ag>>

\* db.RunValueLogGC(0.7): without an error the pass is repeated at once,
\* with one the loop waits for the next tick. A closed store gives an error.
GCPass ==
    /\ Alive
    /\ regDB.gc = "pass"
    /\ \E again \in BOOLEAN :
          /\ again => regDB.status = StoreOpen
          /\ regDB' = [regDB EXCEPT !.gc = IF again THEN "pass" ELSE "ticker",
                                    !.gcOnClosed = @ \/ regDB.status = StoreClosed]
    /\ UNCHANGED <<pipeVars, proc, wrote, mqtt, ag>>

\* registry.Reset: every entry is wiped.
resetRegistry(db) == [db EXCEPT !.kv = [id \in IDs |-> NoValue]]

\* Reset, called while goroutines use the Registry.
RegReset ==
    /\ Alive
    /\ regDB.status = StoreOpen
    /\ \E id \in RegIDs : regDB.kv[id] # NoValue
    /\ regDB' = resetRegistry(regDB)
    /\ wrote' = [id \in IDs |-> NoWrite]
    /\ UNCHANGED <<pipeVars, proc, mqtt, ag>>

\* ---------------------------------------------------------- MQTT controller
\* Entities whose marshaling fails.
MaxBad == 1

\* Calls of Msgs().
MaxMsgsCalls == 2

\* A nil *Subscription or *Msg.
Nil == [kind |-> "nil", of |-> ""]

\* Without an MQTT device there is no MQTT controller.
NoMQTT == "nil"

\* The entities newOSController adds, by the control that provides them.
PowerButtons == <<"suspend">>

ScreenButtons == <<"lock">>

CameraButtons == <<"camStart", "camStop">>

\* The two marshaling methods of an entity.
Methods == {"MarshalSubscription", "MarshalConfig"}

\* newOSController's MQTT controller: which controls could be created
\* decides the entities; bad holds the <<entity, method>> whose marshaling
\* returns an error.
newMQTTController(power, screen, volume, mpris, camera, dbus, bad) ==
    [msgs |-> [ch |-> 1, closes |-> 0],
     calls |-> 0,
     sensors |-> (IF mpris THEN <<"mpris">> ELSE <<>>)
                    \o (IF camera THEN <<"camStatus">> ELSE <<>>),
     buttons |-> (IF power THEN PowerButtons ELSE <<>>)
                    \o (IF screen THEN ScreenButtons ELSE <<>>)
                    \o (IF camera THEN CameraButtons ELSE <<>>),
     numbers |-> IF volume THEN <<"volume">> ELSE <<>>,
     switches |-> IF volume THEN <<"mute">> ELSE <<>>,
     controls |-> IF dbus THEN <<"dbusCmd">> ELSE <<>>,
     binarySensors |-> <<>>,
     cameras |-> IF camera THEN <<"camImage">> ELSE <<>>,
     bad |-> bad,
     ctxDone |-> FALSE,
     closer |-> "waiting",
     called |-> {},
     subs |-> <<>>,
     configs |-> <<>>,
     got |-> {},
     loop |-> "none",
     published |-> 0,
     nilPublished |-> FALSE,
     sender |-> "idle",
     sends |-> 0,
     sentOnClosed |-> FALSE]

\* entity.MarshalSubscription / MarshalConfig: (result, err).
MarshalSubscription(c, e) ==
    IF <<e, "MarshalSubscription">> \in c.bad
    THEN [sub |-> Nil, err |-> "marshal error"]
    ELSE [sub |-> [kind |-> "sub", of |-> e], err |-> NoError]

MarshalConfig(c, e) ==
    IF <<e, "MarshalConfig">> \in c.bad
    THEN [cfg |-> Nil, err |-> "marshal error"]
    ELSE [cfg |-> [kind |-> "cfg", of |-> e], err |-> NoError]

generateSubscription(c, e) ==
    LET r == MarshalSubscription(c, e)
    IN IF r.err # NoError THEN Nil ELSE r.sub

generateConfig(c, e) ==
    LET r == MarshalConfig(c, e)
    IN IF r.err # NoError THEN Nil ELSE r.cfg

\* linuxMQTTController.Subscriptions
Subscriptions(c) ==
    [i \in 1..Len(c.buttons) |-> generateSubscription(c, c.buttons[i])]
       \o [i \in 1..Len(c.numbers) |-> generateSubscription(c, c.numbers[i])]
       \o [i \in 1..Len(c.switches) |-> generateSubscription(c, c.switches[i])]
       \o [i \in 1..Len(c.controls) |-> [kind |-> "sub", of |-> c.controls[i]]]

\* linuxMQTTController.Configs
Configs(c) ==
    [i \in 1..Len(c.sensors) |-> generateConfig(c, c.sensors[i])]
       \o [i \in 1..Len(c.binarySensors) |-> generateConfig(c, c.binarySensors[i])]
       \o [i \in 1..Len(c.buttons) |-> generateConfig(c, c.buttons[i])]
       \o [i \in 1..Len(c.numbers) |-> generateConfig(c, c.numbers[i])]
       \o [i \in 1..Len(c.switches) |-> generateConfig(c, c.switches[i])]
       \o [i \in 1..Len(c.cameras) |-> generateConfig(c, c.cameras[i])]

\* linuxMQTTController.Msgs
Msgs(c) == c.msgs.ch

\* The goroutine that closes msgs receives from ctx.Done() first.
closerNoWait(c) == TRUE

closerMayClose(c) == c.ctxDone

CallSubscriptions ==
    /\ "Subscriptions" \notin mqtt.called
    /\ mqtt' = [mqtt EXCEPT !.subs = Subscriptions(mqtt), !.called = @ \cup {"Subscriptions"}]
    /\ UNCHANGED <<pipeVars, regDB, proc, wrote, ag>>

CallConfigs ==
    /\ "Configs" \notin mqtt.called
    /\ mqtt' = [mqtt EXCEPT !.configs = Configs(mqtt), !.called = @ \cup {"Configs"}]
    /\ UNCHANGED <<pipeVars, regDB, proc, wrote, ag>>

\* A call of Msgs(): got collects the channels the calls have returned.
CallMsgs ==
    /\ mqtt.calls < MaxMsgsCalls
    /\ mqtt' = [mqtt EXCEPT !.got = @ \cup {Msgs(mqtt)}, !.calls = @ + 1]
    /\ UNCHANGED <<pipeVars, regDB, proc, wrote, ag>>

\* The context newOSController was given is cancelled.
MqttCancel ==
    /\ ~mqtt.ctxDone
    /\ mqtt' = [mqtt EXCEPT !.ctxDone = TRUE]
    /\ UNCHANGED <<pipeVars, regDB, proc, wrote, ag>>

\* go func() { defer close(msgs); <-ctx.Done() }()
MsgsCloser ==
    /\ mqtt.closer = "waiting"
    /\ closerMayClose(mqtt)
    /\ mqtt' = [mqtt EXCEPT !.closer = "returned", !.msgs.closes = @ + 1]
    /\ UNCHANGED <<pipeVars, regDB, proc, wrote, ag>>

\* Messages the entities try to send on Msgs().
MaxSends == 2

\* The entities that were handed Msgs() at construction: volume, media
\* control, camera.
HasSender(c) == c.numbers # <<>> \/ "mpris" \in Range(c.sensors) \/ c.cameras # <<>>

MqttFrame == UNCHANGED <<pipeVars, regDB, proc, wrote, ag>>

\* runMQTTWorker: mqttapi.NewClient fails and the worker returns, or the
\* publish goroutine is started.
RunMQTTWorker ==
    /\ mqtt.loop = "none"
    /\ \E connected \in BOOLEAN :
          mqtt' = [mqtt EXCEPT !.loop = IF connected THEN "select" ELSE "returned"]
    /\ MqttFrame

\* case msg := <-osController.Msgs(), the channel open: the rendezvous with
\* an entity blocked in its send; client.Publish(msg).
LoopReceive ==
    /\ mqtt.loop = "select"
    /\ mqtt.msgs.closes = 0
    /\ mqtt.sender = "blocked"
    /\ mqtt' = [mqtt EXCEPT !.sender = "idle", !.published = @ + 1]
    /\ MqttFrame

\* case msg := <-osController.Msgs(), the channel closed: the receive
\* returns nil at once and client.Publish(nil) is called; when Publish
\* returns an error the log line reads msg.Topic of the nil message.
LoopReceiveClosed ==
    /\ mqtt.loop = "select"
    /\ mqtt.msgs.closes > 0
    /\ \E pubErr \in BOOLEAN :
          mqtt' = [mqtt EXCEPT !.nilPublished = TRUE,
                               !.loop = IF pubErr THEN "panicked" ELSE "select"]
    /\ MqttFrame

\* case <-ctx.Done(): return
LoopCtxDone ==
    /\ mqtt.loop = "select"
    /\ mqtt.ctxDone
    /\ mqtt' = [mqtt EXCEPT !.loop = "exited"]
    /\ MqttFrame

\* An entity that saw its context live starts a send on Msgs() and blocks
\* until the publish loop takes the message.
EntitySend ==
    /\ HasSender(mqtt)
    /\ mqtt.sender = "idle"
    /\ ~mqtt.ctxDone
    /\ mqtt.sends < MaxSends
    /\ mqtt' = [mqtt EXCEPT !.sender = "blocked", !.sends = @ + 1]
    /\ MqttFrame

\* The entity blocked in its send gives up because the context is
\* cancelled.
EntityCtxDone ==
    /\ mqtt.sender = "blocked"
    /\ mqtt.ctxDone
    /\ mqtt' = [mqtt EXCEPT !.sender = "idle"]
    /\ MqttFrame

\* The channel is closed under the entity blocked in its send: the send
\* panics.
EntitySendOnClosed ==
    /\ mqtt.sender = "blocked"
    /\ mqtt.msgs.closes > 0
    /\ mqtt' = [mqtt EXCEPT !.sender = "panicked", !.sentOnClosed = TRUE]
    /\ MqttFrame

\* The sets of at most MaxBad failing <<entity, method>> of the entities
\* the controller has.
BadSets(present) ==
    {b \in SUBSET (present \X Methods) : Cardinality(b) <= MaxBad}

InitMQTTController ==
    \E power, screen, volume, mpris, camera, dbus \in BOOLEAN :
       LET c == newMQTTController(power, screen, volume, mpris, camera, dbus, {})
           present == Range(c.sensors) \cup Range(c.buttons) \cup Range(c.numbers)
                         \cup Range(c.switches) \cup Range(c.cameras)
       IN \E bad \in BadSets(present) :
             mqtt = newMQTTController(power, screen, volume, mpris, camera, dbus, bad)

\* -------------------------------------------------------------------- Agent
\* Calls of Agent.Stop.
MaxStops == 1

\* The agent not constructed.
NoAgent == "nil"

\* The goroutines Run's worker goroutine starts for the controllers.
runners(hasMQTT) ==
    {"runSensorWorkers", "runNotificationsWorker"}
       \cup (IF hasMQTT THEN {"runMQTTWorkers"} ELSE {})

\* newDefaultAgent, with the preferences and flags it is run with, and Run
\* about to start: done is open, no goroutine has been started.
newDefaultAgent(registered, forceRegister, headless, isDefault, hasMQTT) ==
    [registered |-> registered, forceRegister |-> forceRegister, headless |-> headless,
     isDefault |-> isDefault, hasMQTT |-> hasMQTT,
     done |-> "open", closes |-> 0, panicked |-> FALSE,
     sig |-> "none", check |-> "none", checkErr |-> NoError,
     regSaved |-> FALSE, trkReset |-> FALSE, regReset |-> "none", wiped |-> {},
     stops |-> 0, saved |-> FALSE,
     setup |-> "regWait", canceller |-> "none", ctlCtxDone |-> FALSE, running |-> {},
     ui |-> "none", run |-> "start",
     wasRegistered |-> registered, contacted |-> FALSE, prefsTouched |-> FALSE]

\* close(agent.done): closing a closed channel panics.
closeDone(a) ==
    IF a.done = "closed"
    THEN [a EXCEPT !.closes = @ + 1, !.panicked = TRUE]
    ELSE [a EXCEPT !.closes = @ + 1, !.done = "closed"]

\* The program runs: Run was called and has not returned, and nothing has
\* panicked.
AgentLive == ag.run = "running" /\ ~ag.panicked

AgentFrame == UNCHANGED <<pipeVars, regDB, proc, wrote, mqtt>>

\* Run up to ui.Run: handleSignals, the registration goroutine and the
\* worker goroutine are started.
AgentRun ==
    /\ ag.run = "start"
    /\ ag' = [ag EXCEPT !.run = "running", !.sig = "waiting", !.check = "start",
                        !.ui = "running"]
    /\ AgentFrame

\* handleSignals' goroutine: an interrupt or SIGTERM arrives; done is closed
\* on the way out.
HandleSignal ==
    /\ AgentLive
    /\ ag.sig = "waiting"
    /\ ag' = [closeDone(ag) EXCEPT !.sig = "exited"]
    /\ AgentFrame

\* Agent.Stop: the preferences are saved (or not), then done is closed.
AgentStop ==
    /\ AgentLive
    /\ ag.stops < MaxStops
    /\ \E saved \in BOOLEAN :
          ag' = [closeDone(ag) EXCEPT !.stops = @ + 1, !.saved = saved]
    /\ AgentFrame

\* checkRegistration: registered and not forced returns nil; otherwise the
\* registration window is shown unless headless or the registration
\* preferences were given.
alreadyRegisteredIgnored(a) == FALSE

\* if agent.prefs.Registered && !agent.forceRegister { return nil }
alreadyRegistered(a) == a.registered /\ ~a.forceRegister

CheckRegistrationStart ==
    /\ AgentLive
    /\ ag.check = "start"
    /\ ag' = [ag EXCEPT !.check =
                IF alreadyRegistered(ag) THEN "returned"
                ELSE IF ~ag.headless /\ ag.isDefault THEN "window"
                ELSE "register"]
    /\ AgentFrame

\* <-userInputDoneCh
CheckRegistrationWindow ==
    /\ AgentLive
    /\ ag.check = "window"
    /\ ag' = [ag EXCEPT !.check = "register"]
    /\ AgentFrame

\* hass.RegisterDevice
CheckRegistrationRegister ==
    /\ AgentLive
    /\ ag.check = "register"
    /\ \E ok \in BOOLEAN :
          ag' = IF ok THEN [ag EXCEPT !.check = "save", !.contacted = TRUE]
                ELSE [ag EXCEPT !.check = "returned", !.contacted = TRUE,
                                !.checkErr = "device registration failed"]
    /\ AgentFrame

\* saveRegistration: agent.prefs.Hass is replaced; generating a URL may
\* fail; then Registered is set and saving the preferences may fail.
CheckRegistrationSave ==
    /\ AgentLive
    /\ ag.check = "save"
    /\ \E res \in {"url", "save", "ok"} :
          ag' = IF res = "url"
                THEN [ag EXCEPT !.check = "returned", !.checkErr = "saving registration failed",
                                !.prefsTouched = TRUE]
                ELSE IF res = "save"
                THEN [ag EXCEPT !.check = "returned", !.checkErr = "saving registration failed",
                                !.registered = TRUE, !.prefsTouched = TRUE]
                ELSE [ag EXCEPT !.check = "reset", !.registered = TRUE, !.saved = TRUE,
                                !.regSaved = TRUE, !.prefsTouched = TRUE]
    /\ AgentFrame

\* if agent.forceRegister
resetsAlways(a) == TRUE

resetsState(a) == a.forceRegister

\* A forced registration resets the Tracker: trk.Reset() clears the
\* Tracker's cache and leaves the Registry alone.
CheckRegistrationReset ==
    /\ AgentLive
    /\ ag.check = "reset"
    /\ ag' = IF resetsState(ag)
             THEN [ag EXCEPT !.check = "regReset", !.trkReset = TRUE]
             ELSE [ag EXCEPT !.check = "returned"]
    /\ AgentFrame

\* ... and then the Registry; a Registry that cannot be reset is a warning.
CheckRegistrationRegReset ==
    /\ AgentLive
    /\ ag.check = "regReset"
    /\ \E ok \in BOOLEAN :
          /\ ag' = [ag EXCEPT !.check = "returned", !.regReset = IF ok THEN "ok" ELSE "failed",
                              !.wiped = IF ok THEN {id \in IDs : regDB.kv[id] # NoValue} ELSE {}]
          /\ regDB' = IF ok THEN resetRegistry(regDB) ELSE regDB
    /\ UNCHANGED <<pipeVars, proc, wrote, mqtt>>

\* Run's registration goroutine, checkRegistration having returned: an
\* error closes done; regWait is released.
RegistrationChecked ==
    /\ AgentLive
    /\ ag.check = "returned"
    /\ ag' = IF ag.checkErr # NoError
             THEN [closeDone(ag) EXCEPT !.check = "exited"]
             ELSE [ag EXCEPT !.check = "exited"]
    /\ AgentFrame

\* Run's worker goroutine, after regWait.Wait(): the controller context, the
\* goroutine that cancels it when done is closed, and the runners.
regWaitSkipped(a) == TRUE

regWaitDone(a) == a.check = "exited"

RunSetup ==
    /\ AgentLive
    /\ ag.setup = "regWait"
    /\ regWaitDone(ag)
    /\ ag' = [ag EXCEPT !.setup = "done", !.canceller = "waiting",
                        !.running = runners(ag.hasMQTT)]
    /\ AgentFrame

\* <-agent.done; cancelFunc()
CancelController ==
    /\ AgentLive
    /\ ag.canceller = "waiting"
    /\ ag.done = "closed"
    /\ ag' = [ag EXCEPT !.canceller = "exited", !.ctlCtxDone = TRUE]
    /\ AgentFrame

\* A runner returns once the controller context is cancelled.
RunnerReturn(r) ==
    /\ AgentLive
    /\ r \in ag.running
    /\ ag.ctlCtxDone
    /\ ag' = [ag EXCEPT !.running = @ \ {r}]
    /\ AgentFrame

\* ui.Run(agent, agent.done) returns once done is closed.
UIRunReturn ==
    /\ AgentLive
    /\ ag.ui = "running"
    /\ ag.done = "closed"
    /\ ag' = [ag EXCEPT !.ui = "returned"]
    /\ AgentFrame

\* wg.Wait() and return.
RunReturn ==
    /\ AgentLive
    /\ ag.ui = "returned"
    /\ ag.setup = "done"
    /\ ag.running = {}
    /\ ag' = [ag EXCEPT !.run = "returned"]
    /\ AgentFrame

InitPipeline ==
    /\ wstate = newOSController
    /\ tasks = [w \in Workers |-> <<>>]
    /\ seen = [w \in Workers |-> [i \in 1..MaxEmit |-> 0]]
    /\ merged = [c \in Controllers |-> {}]
    /\ last = NoCall
    /\ InitRunVars
    /\ InitProc

\* Nothing of the rest of the agent is in use.
Unused == "unused"

InitCore ==
    /\ InitPipeline
    /\ url = Unused
    /\ notif = Unused
    /\ conf = Unused
    /\ scripts = Unused

\* ---------------------------------------------------------- generateAPIURL
\* hass.WebHookPath
WebHookPath == "/api/webhook/"

\* A registration server url.Parse rejects.
BadServer == "://ha.local"

Servers == {"http://ha.local:8123", "https://ha.example.org", BadServer}

CloudhookURLs == {"", "https://hooks.nabu.casa/abc"}

RemoteUIURLs == {"", "https://xyz.ui.nabu.casa"}

WebhookIDs == {"", "hook1", "hook2"}

HassPrefs == [CloudhookURL : CloudhookURLs, RemoteUIURL : RemoteUIURLs,
              WebhookID : WebhookIDs, IgnoreHassURLs : BOOLEAN]

ErrParse == "unable to generate API URL"

\* A URL is kept as the sequence of the non-empty strings it is put
\* together from. url.Parse(server).JoinPath(elems...).String()
JoinPath(server, elems) == <<server>> \o SelectSeq(elems, LAMBDA e : e # "")

generateAPIURLRemoteFirst(server, prefs) ==
    IF prefs.RemoteUIURL # "" /\ prefs.WebhookID # "" /\ ~prefs.IgnoreHassURLs
    THEN [url |-> <<prefs.RemoteUIURL, WebHookPath, prefs.WebhookID>>, err |-> NoError]
    ELSE IF prefs.CloudhookURL # "" /\ ~prefs.IgnoreHassURLs
    THEN [url |-> <<prefs.CloudhookURL>>, err |-> NoError]
    ELSE IF server = BadServer THEN [url |-> <<>>, err |-> ErrParse]
    ELSE [url |-> JoinPath(server, <<WebHookPath, prefs.WebhookID>>), err |-> NoError]

generateAPIURL(server, prefs) ==
    IF prefs.CloudhookURL # "" /\ ~prefs.IgnoreHassURLs
    THEN [url |-> <<prefs.CloudhookURL>>, err |-> NoError]
    ELSE IF prefs.RemoteUIURL # "" /\ prefs.WebhookID # "" /\ ~prefs.IgnoreHassURLs
    THEN [url |-> <<prefs.RemoteUIURL, WebHookPath, prefs.WebhookID>>, err |-> NoError]
    ELSE IF server = BadServer THEN [url |-> <<>>, err |-> ErrParse]
    ELSE [url |-> JoinPath(server, <<WebHookPath, prefs.WebhookID>>), err |-> NoError]

NoURL == [url |-> <<>>, err |-> NoError]

\* A call of generateAPIURL.
GenerateAPIURL ==
    /\ ~url.called
    /\ url' = [url EXCEPT !.called = TRUE, !.out = generateAPIURL(url.server, url.prefs)]
    /\ UNCHANGED <<coreVars, notif, conf, scripts>>

InitURL ==
    /\ InitPipeline
    /\ regDB = OpenSensorRegistry(TRUE)
    /\ mqtt = NoMQTT
    /\ ag = NoAgent
    /\ \E server \in Servers, prefs \in HassPrefs :
          url = [server |-> server, prefs |-> prefs, called |-> FALSE, out |-> NoURL]
    /\ notif = Unused
    /\ conf = Unused
    /\ scripts = Unused

NextURL == GenerateAPIURL

\* ------------------------------------------------------------ UpgradeConfig
\* Versions, <<major, minor, patch>>.
MinUpgradeable == <<3, 0, 0>>

ViperSwitch == <<5, 0, 0>>

Versions == {<<2, 9, 9>>, MinUpgradeable, <<4, 3, 1>>, ViperSwitch, <<6, 1, 0>>}

\* A config that holds no version.
NoVersion == <<>>

\* semver.Compare(a, b) < 0; an invalid (missing) version is below every
\* valid one.
SemverLess(a, b) ==
    IF a = NoVersion THEN b # NoVersion
    ELSE IF b = NoVersion THEN FALSE
    ELSE \/ a[1] < b[1]
         \/ a[1] = b[1] /\ a[2] < b[2]
         \/ a[1] = b[1] /\ a[2] = b[2] /\ a[3] < b[3]

\* What the filesystem and the config stores answer during one call.
UpgradeEnvs == [migrateErr : BOOLEAN, storagePathErr : BOOLEAN, oldRegExists : BOOLEAN,
                renameErr : BOOLEAN, setErr : BOOLEAN]

\* viperToFyne: nothing to do when the Viper config file exists; otherwise
\* every Fyne preference that is set is copied, the version among them.
viperToFyne(c, env) ==
    IF c.viper # NoVersion THEN [err |-> FALSE, viper |-> c.viper, wrote |-> FALSE]
    ELSE IF env.migrateErr THEN [err |-> TRUE, viper |-> c.viper, wrote |-> FALSE]
    ELSE [err |-> FALSE, viper |-> c.fyne, wrote |-> TRUE]

\* UpgradeConfig(vc): the value returned, the version in the Viper config
\* afterwards, whether anything was written and whether the preference
\* migration has run.
UpgradeConfig(c, env) ==
    LET configVersion == IF SemverLess(c.app, ViperSwitch) THEN c.fyne ELSE c.viper
        setVersion(version, written, ran) ==
            IF env.setErr
            THEN [ret |-> "nil", viper |-> version, wrote |-> written, migrated |-> ran]
            ELSE [ret |-> "nil", viper |-> c.app, wrote |-> TRUE, migrated |-> ran]
    IN IF configVersion = NoVersion
       THEN [ret |-> "FileNotFoundError", viper |-> c.viper, wrote |-> FALSE, migrated |-> FALSE]
       ELSE IF SemverLess(configVersion, MinUpgradeable)
       THEN [ret |-> "UpgradeError", viper |-> c.viper, wrote |-> FALSE, migrated |-> FALSE]
       ELSE IF SemverLess(configVersion, ViperSwitch)
       THEN LET m == viperToFyne(c, env)
            IN IF m.err
               THEN [ret |-> "UpgradeError", viper |-> m.viper, wrote |-> m.wrote,
                     migrated |-> FALSE]
               ELSE IF env.storagePathErr \/ (env.oldRegExists /\ env.renameErr)
               THEN [ret |-> "nil", viper |-> m.viper, wrote |-> m.wrote, migrated |-> TRUE]
               ELSE setVersion(m.viper, m.wrote, TRUE)
       ELSE setVersion(c.viper, FALSE, FALSE)

\* A call of UpgradeConfig.
CallUpgradeConfig ==
    /\ ~conf.called
    /\ \E env \in UpgradeEnvs :
          LET r == UpgradeConfig(conf, env)
          IN conf' = [conf EXCEPT !.called = TRUE, !.ret = r.ret, !.viper = r.viper,
                                 !.wrote = r.wrote, !.migrated = r.migrated,
                                 !.read = IF SemverLess(conf.app, ViperSwitch)
                                          THEN conf.fyne ELSE conf.viper]
    /\ UNCHANGED <<coreVars, url, notif, scripts>>

InitConf ==
    /\ InitPipeline
    /\ regDB = OpenSensorRegistry(TRUE)
    /\ mqtt = NoMQTT
    /\ ag = NoAgent
    /\ url = Unused
    /\ notif = Unused
    /\ \E app \in Versions, fyne \in Versions \cup {NoVersion}, viper \in Versions \cup {NoVersion} :
          conf = [app |-> app, fyne |-> fyne, viper |-> viper, called |-> FALSE, ret |-> "none",
                  wrote |-> FALSE, migrated |-> FALSE, read |-> NoVersion]
    /\ scripts = Unused

NextConf == CallUpgradeConfig

\* UpgradeConfig on every application version and stored config.
SpecConf == InitConf /\ [][NextConf]_vars

\* --------------------------------------------------------------- runScripts
\* Scripts FindScripts returns at most.
MaxScripts == 3

\* script.Schedule(): none, one the scheduler accepts, one it rejects.
NoSchedule == ""

BadSchedule == "every day"

Schedules == {NoSchedule, "@every 5s", BadSchedule}

\* The lists of scripts FindScripts may return (a script is its schedule).
ScriptLists == UNION {[1..n -> Schedules] : n \in 0..MaxScripts}

\* scheduler.AddJob(schedule, script) returns an error.
addJobErr(schedule) == schedule = BadSchedule

\* The index the loop over allScripts goes on with after script i: an AddJob
\* error breaks out of the loop.
scheduleLoopAfter(i, err, n) == IF err THEN n + 1 ELSE i + 1

ScriptsFrame == UNCHANGED <<coreVars, url, notif, conf>>

\* scripts.FindScripts: an error or no script ends runScripts.
RunScriptsFind ==
    /\ scripts.pc = "find"
    /\ \E findErr \in BOOLEAN :
          scripts' = [scripts EXCEPT !.pc = IF findErr \/ scripts.all = <<>>
                                           THEN "returned" ELSE "loop"]
    /\ ScriptsFrame

\* One turn of the loop over allScripts: a script with a schedule is added
\* to the scheduler and its Output stream collected.
RunScriptsStep ==
    /\ scripts.pc = "loop"
    /\ scripts.i <= Len(scripts.all)
    /\ LET schedule == scripts.all[scripts.i]
           err == schedule # NoSchedule /\ addJobErr(schedule)
           added == schedule # NoSchedule /\ ~err
       IN scripts' = [scripts EXCEPT !.i = scheduleLoopAfter(@, err, Len(scripts.all)),
                                    !.jobs = IF added THEN @ \cup {scripts.i} ELSE @,
                                    !.outCh = IF added THEN Append(@, scripts.i) ELSE @,
                                    !.warned = IF err THEN @ \cup {scripts.i} ELSE @]
    /\ ScriptsFrame

\* scheduler.Start(); go trk.Process(ctx, reg, outCh...)
RunScriptsStart ==
    /\ scripts.pc = "loop"
    /\ scripts.i > Len(scripts.all)
    /\ scripts' = [scripts EXCEPT !.pc = "wait", !.streams = Range(scripts.outCh)]
    /\ ScriptsFrame

\* The context handed to runScripts is cancelled.
ScriptsCancel ==
    /\ ~scripts.ctxDone
    /\ scripts' = [scripts EXCEPT !.ctxDone = TRUE]
    /\ ScriptsFrame

\* <-ctx.Done(); scheduler.Stop()
RunScriptsStop ==
    /\ scripts.pc = "wait"
    /\ scripts.ctxDone
    /\ scripts' = [scripts EXCEPT !.pc = "returned"]
    /\ ScriptsFrame

InitScripts ==
    /\ InitPipeline
    /\ regDB = OpenSensorRegistry(TRUE)
    /\ mqtt = NoMQTT
    /\ ag = NoAgent
    /\ url = Unused
    /\ notif = Unused
    /\ conf = Unused
    /\ \E all \in ScriptLists :
          scripts = [all |-> all, pc |-> "find", i |-> 1, jobs |-> {}, outCh |-> <<>>,
                     warned |-> {}, streams |-> {}, ctxDone |-> FALSE]

NextScripts ==
    \/ RunScriptsFind
    \/ RunScriptsStep
    \/ RunScriptsStart
    \/ ScriptsCancel
    \/ RunScriptsStop

\* runScripts on every list of scripts.
SpecScripts == InitScripts /\ [][NextScripts]_vars

\* ------------------------------------------------- the notifications worker
\* Websocket responses the handler receives.
MaxResponses == 3

\* r.Type of a websocket response.
ResponseTypes == {"auth_required", "auth_ok", "result", "event", "other"}

\* runNotificationsWorker before hass.NewWebsocket, with or without a valid
\* config in the context.
newNotifications(validConfig) ==
    [validConfig |-> validConfig, ctxDone |-> FALSE, worker |-> "connect", ws |-> "none",
     handler |-> "none", responses |-> 0, sent |-> <<>>, notified |-> 0]

NotifFrame == UNCHANGED <<coreVars, url, conf, scripts>>

\* ws := hass.NewWebsocket(ctx): nil and the worker returns, or the handler
\* goroutine is started and the worker waits for ctx.Done().
NotifConnect ==
    /\ notif.worker = "connect"
    /\ \E connected \in BOOLEAN :
          notif' = IF connected
                   THEN [notif EXCEPT !.worker = "wait", !.ws = "open", !.handler = "config"]
                   ELSE [notif EXCEPT !.worker = "returned"]
    /\ NotifFrame

\* case <-ctx.Done() of the worker: ws.Close(), return. Nothing reads the
\* request channel of a closed websocket.
NotifWorkerDone ==
    /\ notif.worker = "wait"
    /\ notif.ctxDone
    /\ notif' = [notif EXCEPT !.worker = "returned", !.ws = "closed"]
    /\ NotifFrame

\* config.FromContext(ctx): without a valid config the handler returns.
NotifConfig ==
    /\ notif.handler = "config"
    /\ notif' = [notif EXCEPT !.handler = IF notif.validConfig THEN "select" ELSE "returned"]
    /\ NotifFrame

\* case r := <-response: the switch on r.Type; "auth_required" and "auth_ok"
\* go on to a send on the request channel.
NotifResponse(type) ==
    /\ notif.handler = "select"
    /\ notif.ws = "open"
    /\ notif.responses < MaxResponses
    /\ notif' = [notif EXCEPT !.responses = @ + 1,
                              !.handler = IF type = "auth_required" THEN "sendAuth"
                                          ELSE IF type = "auth_ok" THEN "sendPush"
                                          ELSE "select",
                              !.notified = IF type = "event" THEN @ + 1 ELSE @]
    /\ NotifFrame

\* request <- struct{...}: the send completes when the websocket's writer
\* takes the request.
NotifSend ==
    /\ notif.handler \in {"sendAuth", "sendPush"}
    /\ notif.ws = "open"
    /\ notif' = [notif EXCEPT !.handler = "select",
                              !.sent = Append(@, IF notif.handler = "sendAuth" THEN "auth"
                                                 ELSE "push_notification_channel")]
    /\ NotifFrame

\* case <-ctx.Done() of the handler: return.
NotifHandlerDone ==
    /\ notif.handler = "select"
    /\ notif.ctxDone
    /\ notif' = [notif EXCEPT !.handler = "returned"]
    /\ NotifFrame

\* The context of the notifications worker is cancelled.
NotifCancel ==
    /\ ~notif.ctxDone
    /\ notif' = [notif EXCEPT !.ctxDone = TRUE]
    /\ NotifFrame

InitNotif ==
    /\ InitPipeline
    /\ regDB = OpenSensorRegistry(TRUE)
    /\ mqtt = NoMQTT
    /\ ag = NoAgent
    /\ url = Unused
    /\ \E validConfig \in BOOLEAN : notif = newNotifications(validConfig)
    /\ conf = Unused
    /\ scripts = Unused

NextNotif ==
    \/ NotifConnect
    \/ NotifWorkerDone
    \/ NotifConfig
    \/ \E type \in ResponseTypes : NotifResponse(type)
    \/ NotifSend
    \/ NotifHandlerDone
    \/ NotifCancel

\* The notifications worker and its handler; both goroutines and the
\* websocket's writer keep taking the steps they can take.
SpecNotif ==
    /\ InitNotif /\ [][NextNotif]_vars
    /\ WF_vars(NotifConnect) /\ WF_vars(NotifWorkerDone) /\ WF_vars(NotifConfig)
    /\ WF_vars(NotifSend) /\ WF_vars(NotifHandlerDone)

\* generateAPIURL on every registration server and every Hass preferences.
SpecURL == InitURL /\ [][NextURL]_vars

\* The store opened, no MQTT device, the agent not running.
Init ==
    /\ InitCore
    /\ regDB = OpenSensorRegistry(TRUE)
    /\ mqtt = NoMQTT
    /\ ag = NoAgent

\* The Registry as OpenSensorRegistry returns it, the store opened or not.
InitReg ==
    /\ InitCore
    /\ \E opened \in BOOLEAN : regDB = OpenSensorRegistry(opened)
    /\ mqtt = NoMQTT
    /\ ag = NoAgent

NextRun ==
    \/ RwStartAllStep
    \/ RwStartAllReturn
    \/ RwProcess
    \/ RwStopAll
    \/ Cancel
    \/ \E w \in Workers : TaskExit(w)
    \/ \E w \in Workers : WorkerSend(w)
    \/ \E w \in Workers : MergeForward(w)
    \/ \E c \in Controllers : TrackerProcess(c)
    \/ RegisterDone
    \/ \E c \in Controllers : ReaderExit(c)
    \/ TrackerCtxDone
    \/ TrackerExit

\* runWorkers with the Tracker, from an empty Registry.
SpecRun == Init /\ [][NextRun]_vars

NextDisable ==
    \/ RwStartAllStep
    \/ RwStartAllReturn
    \/ RwProcess
    \/ \E w \in Workers : WorkerSend(w)
    \/ \E w \in Workers : MergeForward(w)
    \/ \E c \in Controllers : TrackerProcess(c)
    \/ RegisterDone
    \/ \E id \in IDs, state \in BOOLEAN : UserSetDisabled(id, state)

\* The same, with sensors being disabled and re-enabled during the run.
SpecDisable == Init /\ [][NextDisable]_vars

TrackerPublish == \E c \in Controllers, pub \in {"ok", "failed"} : TrackerProcessPub(c, pub)

NextPublish ==
    \/ RwStartAllStep
    \/ RwStartAllReturn
    \/ RwProcess
    \/ \E w \in Workers : WorkerSend(w)
    \/ \E w \in Workers : MergeForward(w)
    \/ TrackerPublish
    \/ RegisterDone
    \/ \E id \in IDs, state \in BOOLEAN : UserSetDisabled(id, state)

\* The run with a remote publisher whose calls may fail; the merge tasks, the
\* readers and Process keep running.
SpecPublish ==
    /\ Init /\ [][NextPublish]_vars
    /\ WF_vars(RwStartAllStep) /\ WF_vars(RwStartAllReturn) /\ WF_vars(RwProcess)
    /\ \A w \in Workers : WF_vars(MergeForward(w))
    /\ WF_vars(TrackerPublish)
    /\ WF_vars(RegisterDone)

\* The worker whose update stream stays open and never emits.
Silent == "battery"

NextSilent ==
    \/ RwStartAllStep
    \/ RwStartAllReturn
    \/ RwProcess
    \/ \E w \in Workers \ {Silent} : WorkerSend(w)
    \/ \E w \in Workers : MergeForward(w)
    \/ \E c \in Controllers : TrackerProcess(c)
    \/ RegisterDone

\* The run with one silent worker, every goroutine scheduled fairly.
SpecSilent ==
    /\ Init /\ [][NextSilent]_vars
    /\ WF_vars(RwStartAllStep) /\ WF_vars(RwStartAllReturn) /\ WF_vars(RwProcess)
    /\ \A w \in Workers \ {Silent} : WF_vars(WorkerSend(w)) /\ WF_vars(MergeForward(w))
    /\ WF_vars(\E c \in Controllers : TrackerProcess(c))
    /\ WF_vars(RegisterDone)

\* An MQTT controller as newOSController returns it.
InitMQTT ==
    /\ InitCore
    /\ regDB = OpenSensorRegistry(TRUE)
    /\ InitMQTTController
    /\ ag = NoAgent

NextMQTT ==
    \/ CallSubscriptions
    \/ CallConfigs
    \/ CallMsgs
    \/ MqttCancel
    \/ MsgsCloser

\* The MQTT controller; the goroutine that closes msgs runs once it can.
SpecMQTT == InitMQTT /\ [][NextMQTT]_vars /\ WF_vars(MsgsCloser)

NextMQTTLoop ==
    \/ MqttCancel
    \/ MsgsCloser
    \/ RunMQTTWorker
    \/ LoopReceive
    \/ LoopReceiveClosed
    \/ LoopCtxDone
    \/ EntitySend
    \/ EntityCtxDone
    \/ EntitySendOnClosed

\* The MQTT controller with its publish loop and the entities that send on
\* Msgs().
SpecMQTTLoop == InitMQTT /\ [][NextMQTTLoop]_vars /\ WF_vars(MsgsCloser)

\* The agent as main constructs it, Run not yet called.
InitAgent ==
    /\ InitCore
    /\ \E stored \in BOOLEAN :
          regDB = IF stored
                  THEN Set(OpenSensorRegistry(TRUE), "cpu_pct",
                           [Registered |-> TRUE, Disabled |-> FALSE])
                  ELSE OpenSensorRegistry(TRUE)
    /\ mqtt = NoMQTT
    /\ \E registered, forceRegister, headless, isDefault, hasMQTT \in BOOLEAN :
          ag = newDefaultAgent(registered, forceRegister, headless, isDefault, hasMQTT)

\* The steps of Run and of the goroutines it starts.
AgentSteps ==
    \/ AgentRun
    \/ CheckRegistrationStart
    \/ CheckRegistrationWindow
    \/ CheckRegistrationRegister
    \/ CheckRegistrationSave
    \/ CheckRegistrationReset
    \/ CheckRegistrationRegReset
    \/ RegistrationChecked
    \/ RunSetup
    \/ CancelController
    \/ \E r \in runners(TRUE) : RunnerReturn(r)
    \/ UIRunReturn
    \/ RunReturn

NextAgent ==
    \/ AgentSteps
    \/ HandleSignal
    \/ AgentStop

\* Agent.Run with signals and Stop arriving at any time.
SpecAgent == InitAgent /\ [][NextAgent]_vars

\* The same; Run and its goroutines keep taking the steps they can take.
SpecAgentFair == InitAgent /\ [][NextAgent]_vars /\ WF_vars(AgentSteps)

NextReg ==
    \/ \E g \in Goroutines, id \in RegIDs : RegGet(g, id)
    \/ \E g \in Goroutines, id \in RegIDs, values \in AllValues : RegSet(g, id, values)
    \/ \E g \in Goroutines, flag \in {"registered", "disabled"}, state \in BOOLEAN :
          RegUpdate(g, flag, state)
    \/ \E g \in Goroutines, id \in RegIDs : RegAddGet(g, id)
    \/ \E g \in Goroutines : RegAddSet(g)
    \/ RegCancel
    \/ RegClose
    \/ RegReset

\* Goroutines calling the Registry concurrently.
SpecReg == InitReg /\ [][NextReg]_vars

NextClose ==
    \/ NextReg
    \/ CloseSensorRegistry

\* The same with CloseSensorRegistry called during the run.
SpecClose == InitReg /\ [][NextClose]_vars

NextGC ==
    \/ NextReg
    \/ GCTick
    \/ GCPass

\* The same with the Registry's GC goroutine; the ticker keeps ticking and
\* a runnable goroutine runs.
SpecGC ==
    InitReg /\ [][NextGC]_vars
       /\ WF_vars(RegClose) /\ WF_vars(GCTick) /\ WF_vars(GCPass)

\* The controller the calls are made on.
CtlUnderTest == "c1"

NextCtl ==
    \/ \E name \in Names : Start(CtlUnderTest, name)
    \/ \E name \in Names : Stop(CtlUnderTest, name)
    \/ StartAll(CtlUnderTest)
    \/ StopAll(CtlUnderTest)
    \/ CallActiveWorkers(CtlUnderTest)
    \/ CallInactiveWorkers(CtlUnderTest)
    \/ \E w \in Managed(CtlUnderTest) : TaskEmit(w)

\* The controller driven by arbitrary calls.
SpecCtl == Init /\ [][NextCtl]_vars

\* ------------------------------------------------------ controller properties
RunningIn(st, c) == {w \in Managed(c) : st[w] = "Running"}

\* The first element of order that is in S.
FirstIn(order, S) ==
    order[CHOOSE i \in DOMAIN order :
            order[i] \in S /\ \A j \in DOMAIN order : order[j] \in S => i <= j]

\* C4: Start on a worker that is Running returns ErrWorkerAlreadyStarted,
\* leaves every worker as it was (the worker stays Running) and launches no
\* update task; no worker ever has a second update task and no snapshot
\* appears twice on the update stream.
C4_StartOnRunning ==
    /\ (last.op = "Start" /\ last.name \in Managed(last.ctl) /\ last.pre[last.name] = "Running")
          => /\ last.err = ErrWorkerAlreadyStarted
             /\ wstate = last.pre
             /\ wstate[last.name] = "Running"
             /\ last.spawned = {}
    /\ \A w \in Workers : Len(tasks[w]) <= 1
    /\ \A w \in Workers : \A i \in 1..MaxEmit : seen[w][i] <= 1

\* A rejected Start on the running "cpu" worker, whose snapshots then still
\* arrive, once each.
C4_Witness ==
    /\ last.op = "Start" /\ last.name = "cpu" /\ last.pre["cpu"] = "Running"
    /\ seen["cpu"][1] = 1 /\ seen["cpu"][2] = 1

\* C5: every change of a worker's state is NotStarted -> Running, made by
\* Start or StartAll, or Running -> Stopped, made by Stop or StopAll; a
\* Stopped worker therefore stays Stopped whatever is called.
C5_Transitions ==
    [][\A w \in Workers :
          /\ wstate'[w] # wstate[w] =>
                \/ /\ wstate[w] = "NotStarted" /\ wstate'[w] = "Running"
                   /\ last'.op \in {"Start", "StartAll"}
                \/ /\ wstate[w] = "Running" /\ wstate'[w] = "Stopped"
                   /\ last'.op \in {"Stop", "StopAll"}
          /\ wstate[w] = "Stopped" => wstate'[w] = "Stopped"]_vars

\* Start was called on a Stopped worker, and StartAll on a controller that
\* has one: the worker is still Stopped.
C5_Witness ==
    /\ last.op \in {"Start", "StartAll"}
    /\ \E w \in Managed(last.ctl) :
          /\ last.pre[w] = "Stopped" /\ wstate[w] = "Stopped"
          /\ last.op = "Start" => last.name = w

\* C6: Start with an unmanaged name returns ErrUnknownWorker; Stop with an
\* unmanaged name or the name of a worker that is not Running returns an
\* error; in each case no worker changes state, no Stop() is invoked and no
\* task is launched.
C6_RejectedCalls ==
    /\ (last.op = "Start" /\ last.name \notin Managed(last.ctl))
          => /\ last.err = ErrUnknownWorker
             /\ wstate = last.pre /\ last.stopped = {} /\ last.spawned = {}
    /\ (last.op = "Stop" /\ (last.name \notin Managed(last.ctl) \/ last.pre[last.name] # "Running"))
          => /\ last.err # NoError
             /\ wstate = last.pre /\ last.stopped = {} /\ last.spawned = {}

\* Stop on a worker that never ran, with another worker Running untouched.
C6_Witness ==
    /\ last.op = "Stop" /\ last.name = "battery" /\ last.pre["battery"] = "NotStarted"
    /\ last.pre["cpu"] = "Running" /\ wstate["cpu"] = "Running"

\* C7: StopAll invokes Stop() on exactly the workers that were Running,
\* those walked after a failing one included, returns the error of the first
\* worker of the walk whose Stop() failed (nil when none failed), and leaves
\* no worker of the controller Running.
C7_StopAllBestEffort ==
    last.op = "StopAll" =>
        /\ last.stopped = RunningIn(last.pre, last.ctl)
        /\ IF last.sfail = {}
           THEN last.err = NoError
           ELSE last.err = ErrStopFailed /\ last.errOf = FirstIn(last.order, last.sfail)
        /\ RunningIn(wstate, last.ctl) = {}

\* Two workers were Running, the first one walked failed to stop, the second
\* was stopped all the same.
C7_Witness ==
    /\ last.op = "StopAll"
    /\ Cardinality(RunningIn(last.pre, last.ctl)) = 2
    /\ last.sfail = {last.order[1]}
    /\ last.stopped = Managed(last.ctl)

\* C8: StopAll on a controller with no Running worker returns nil, invokes
\* no Stop() and leaves every worker as it was.
C8_StopAllIdle ==
    (last.op = "StopAll" /\ RunningIn(last.pre, last.ctl) = {})
        => last.err = NoError /\ last.stopped = {} /\ wstate = last.pre

\* StopAll after an earlier StopAll stopped one worker, the other never
\* having been started.
C8_Witness ==
    /\ last.op = "StopAll"
    /\ last.pre["battery"] = "Stopped" /\ last.pre["cpu"] = "NotStarted"
    /\ last.err = NoError

\* C9: after StartAll, every worker that was NotStarted and whose Updates()
\* succeeded is Running and in the merged stream; a worker that failed to
\* start (Updates() error, or already Stopped) is in its former state, not
\* Running and not in the merged stream; a worker that was Running is left
\* alone with its one task.
C9_StartAllPartial ==
    last.op = "StartAll" =>
        \A w \in Managed(last.ctl) :
            /\ (last.pre[w] = "NotStarted" /\ w \notin last.ufail)
                  => wstate[w] = "Running" /\ w \in last.spawned /\ w \in merged[last.ctl]
            /\ (last.pre[w] = "NotStarted" /\ w \in last.ufail)
                  => wstate[w] = "NotStarted" /\ w \notin merged[last.ctl]
            /\ last.pre[w] = "Stopped"
                  => wstate[w] = "Stopped" /\ w \notin merged[last.ctl]
            /\ last.pre[w] = "Running"
                  => wstate[w] = "Running" /\ w \notin last.spawned

\* "battery" was walked first and failed to start; "cpu" was started all the
\* same and its snapshot arrived.
C9_Witness ==
    /\ last.op = "StartAll" /\ last.order[1] = "battery"
    /\ last.ufail = {"battery"} /\ wstate["battery"] = "NotStarted"
    /\ wstate["cpu"] = "Running" /\ seen["cpu"][1] = 1

\* runWorkers under cancellation alone: the controllers are started, the
\* context is cancelled at any point, the workers are stopped.
NextCancel ==
    \/ RwStartAllStep
    \/ RwStartAllReturn
    \/ RwProcess
    \/ RwStopAll
    \/ Cancel
    \/ \E w \in Workers : TaskExit(w)

\* runWorkers' own goroutines keep running, and a task whose context is
\* cancelled closes its stream (Worker contract).
FairCancel ==
    /\ WF_vars(RwStartAllStep)
    /\ WF_vars(RwStartAllReturn)
    /\ WF_vars(RwProcess)
    /\ WF_vars(RwStopAll)
    /\ \A w \in Workers : WF_vars(TaskExit(w))

SpecCancel == Init /\ [][NextCancel]_vars /\ FairCancel

\* The workers that report once.
OneShot == {w \in Workers : EmitLimit(w) = 1}

NextProcess ==
    \/ RwStartAllStep
    \/ RwStartAllReturn
    \/ RwProcess
    \/ RwStopAll
    \/ Cancel
    \/ \E w \in Workers : TaskExit(w)
    \/ \E w \in OneShot : WorkerSend(w)
    \/ \E w \in Workers : MergeForward(w)
    \/ \E c \in Controllers : TrackerProcess(c)
    \/ RegisterDone
    \/ \E c \in Controllers : ReaderExit(c)
    \/ TrackerCtxDone
    \/ TrackerExit

\* The run up to the return of Process, with the merge tasks, the readers and
\* Process scheduled fairly as well.
SpecProcess ==
    /\ Init /\ [][NextProcess]_vars
    /\ FairCancel
    /\ \A w \in Workers : WF_vars(MergeForward(w))
    /\ WF_vars(\E c \in Controllers : TrackerProcess(c))
    /\ WF_vars(RegisterDone)
    /\ \A c \in Controllers : WF_vars(ReaderExit(c))
    /\ WF_vars(TrackerCtxDone)
    /\ WF_vars(TrackerExit)

\* -------------------------------------------------- fan-in and dedup properties
\* Snapshots of w emitted by its update tasks so far.
RECURSIVE SumPos(_)
SumPos(ts) == IF ts = <<>> THEN 0 ELSE Head(ts).pos + SumPos(Tail(ts))

Emitted(w) == SumPos(tasks[w])

\* Snapshots of w between its update task and Process.
InFlight(w) ==
    (IF mslot[w] # 0 THEN 1 ELSE 0)
    + (IF rslot[CtlOf(w)] # <<>> /\ rslot[CtlOf(w)][1] = w THEN 1 ELSE 0)

PipelineStep ==
    \/ \E w \in Workers : MergeForward(w)
    \/ \E c \in Controllers : TrackerProcess(c)
    \/ RegisterDone

\* C1: the snapshots of each worker reach the remote publisher in emission
\* order, each once: what Process has handled of w is snapshot 1, 2, .. k of
\* w in that order, every emitted snapshot is either handled or still on its
\* way, every handled snapshot was handed to the publisher, every merged
\* stream StartAll returned is read by Process, and while Process runs a
\* snapshot on its way can always move on (so that once the workers are done
\* the handled snapshots are the multiset union of the emitted ones).
C1_FanIn ==
    /\ \A w \in Workers :
          /\ \A i \in 1..Len(log[w]) :
                log[w][i].idx = i /\ log[w][i].kind \in {"register", "update"}
          /\ Emitted(w) = Len(log[w]) + InFlight(w)
    /\ trk.state # "idle" => trk.readers = Controllers
    /\ (trk.state = "running" /\ ~ENABLED PipelineStep)
          => \A w \in Workers : InFlight(w) = 0

\* All three workers emitted everything and the publisher got it all, with
\* the context not cancelled.
C1_Witness ==
    /\ ~ctxDone
    /\ \A w \in Workers : Emitted(w) = EmitLimit(w) /\ Len(log[w]) = EmitLimit(w)

Stored(id) == Get(regDB, id)

\* C2: from an empty Registry, the first snapshot of a sensor ID makes one
\* registration call and every later one an update call; exactly the
\* observed IDs have an entry; an ID whose registration call succeeded has
\* the entry registered=true, disabled=false.
C2_RegisterOnce ==
    \A w \in Workers :
        /\ \A i \in 1..Len(log[w]) :
              log[w][i].kind = IF i = 1 THEN "register" ELSE "update"
        /\ (log[w] = <<>>) <=> (regDB.kv[SensorID(w)] = NoValue)
        /\ (log[w] # <<>> /\ log[w][1].res = "ok")
              => Stored(SensorID(w)) =
                    [values |-> [Registered |-> TRUE, Disabled |-> FALSE], err |-> NoError]
        /\ (log[w] # <<>> /\ log[w][1].res # "ok")
              => Stored(SensorID(w)) =
                    [values |-> [Registered |-> FALSE, Disabled |-> FALSE], err |-> NoError]

\* "battery" emitted one snapshot and "cpu" two: three remote calls (two
\* registrations, one update) and two entries, both registered and enabled.
C2_Witness ==
    /\ Len(log["battery"]) = 1 /\ Len(log["cpu"]) = 2 /\ Len(log["mem"]) = 0
    /\ log["battery"][1].res = "ok" /\ log["cpu"][1].res = "ok"
    /\ regDB.kv["battery_level"] = <<TRUE, FALSE>> /\ regDB.kv["cpu_pct"] = <<TRUE, FALSE>>
    /\ regDB.kv["mem_used"] = NoValue

\* C3: a snapshot that Process takes up while its ID's stored entry has
\* disabled=true is dropped, not forwarded; one taken up while the entry
\* exists with disabled=false is forwarded as an update, also after the
\* entry was disabled earlier in the same run.
C3_DisabledDropped ==
    [][\A w \in Workers :
          Len(log'[w]) > Len(log[w]) =>
              LET val == regDB.kv[SensorID(w)]
                  e == log'[w][Len(log'[w])]
              IN /\ (val # NoValue /\ val[2]) => e.kind = "drop"
                 /\ (val # NoValue /\ ~val[2]) => e.kind = "update"
                 /\ val = NoValue => e.kind = "register"]_vars

\* "cpu" was registered, then disabled (second snapshot dropped), then
\* re-enabled (third snapshot forwarded).
C3_Witness ==
    /\ Len(log["cpu"]) = 3
    /\ log["cpu"][1].kind = "register"
    /\ log["cpu"][2].kind = "drop"
    /\ log["cpu"][3].kind = "update"

\* C10: when the context is cancelled while StartAll is in progress, then
\* eventually runWorkers has run StopAll on every controller, no worker is
\* Running and every update task that was launched has exited.
AllStopped ==
    /\ rw.pc = "Done"
    /\ \A w \in Workers : wstate[w] # "Running"
    /\ \A w \in Workers : \A k \in 1..Len(tasks[w]) : ~tasks[w][k].live

C10_CancelDuringStartAll == (ctxDone /\ rw.cancelPc = "StartAll") ~> AllStopped

\* The context was cancelled between two Start calls of one StartAll; in the
\* end both workers of that controller, started before and after the
\* cancellation, are Stopped.
C10_Witness ==
    /\ rw.cancelPc = "StartAll"
    /\ AllStopped
    /\ \A w \in Workers : wstate[w] = "Stopped"

\* ------------------------------------------------------ Registry properties
\* The step in which g's call of op returns at once (Get, Set, Update, and
\* the lookup of Add).
CallStep(g, op) == proc'[g].n = proc[g].n + 1 /\ proc'[g].op = op

\* The step in which g's Add writes the defaults and returns.
AddWriteStep(g) == proc[g].pc = "addSet" /\ proc'[g].pc = "idle"

\* The registryValues that have both flags false.
Defaults == [Registered |-> FALSE, Disabled |-> FALSE]

\* C11: on a readable store, a Get(id) whose id was last written by
\* Set(id, v) (or Update, which is Set), with no other write to id in
\* between, returns exactly v, both flags, and no error.
C11_SetThenGet ==
    [][\A g \in Goroutines :
          (/\ CallStep(g, "Get")
           /\ regDB.status = StoreOpen
           /\ wrote[proc'[g].id].last \in {"Set", "Update"})
             => /\ proc'[g].err = NoError
                /\ proc'[g].values = wrote[proc'[g].id].values]_vars

\* "g1" called Set("cpu_pct", registered and not disabled) and then Get,
\* which returned that; "g2" made no call.
C11_Witness ==
    /\ proc["g2"].n = 0
    /\ proc["g1"].n = 2 /\ proc["g1"].op = "Get" /\ proc["g1"].id = "cpu_pct"
    /\ proc["g1"].err = NoError
    /\ proc["g1"].values = [Registered |-> TRUE, Disabled |-> FALSE]
    /\ wrote["cpu_pct"].last = "Set"

\* C12: on a readable store, as long as id has been written by Add alone,
\* under every interleaving of the Add calls there is at most one entry of
\* id and it holds the defaults, there is one once an Add has returned, and
\* every Add returns an entry with the defaults.
C12_ConcurrentAdd ==
    /\ [](\A id \in RegIDs :
             (regDB.status = StoreOpen /\ ~wrote[id].sets)
                => /\ regDB.kv[id] \in {NoValue, <<FALSE, FALSE>>}
                   /\ wrote[id].adds => regDB.kv[id] = <<FALSE, FALSE>>)
    /\ [][\A g \in Goroutines :
             (/\ AddWriteStep(g) \/ (CallStep(g, "Add") /\ proc'[g].pc = "idle")
              /\ regDB.status = StoreOpen
              /\ ~wrote[proc'[g].id].sets)
                => proc'[g].entry = [id |-> proc'[g].id, values |-> Defaults]]_vars

\* Both goroutines called Add("cpu_pct"), both found the key missing, both
\* wrote the defaults and returned.
C12_Witness ==
    /\ \A g \in Goroutines :
          /\ proc[g].op = "Add" /\ proc[g].id = "cpu_pct" /\ proc[g].n = 1
          /\ proc[g].pc = "idle" /\ proc[g].set
          /\ proc[g].entry.values = Defaults
    /\ regDB.kv["cpu_pct"] = <<FALSE, FALSE>>
    /\ ~wrote["cpu_pct"].sets

\* C13: Add's lookup and its write of the defaults are one transaction: the
\* write never replaces an entry that another goroutine stored after the
\* lookup.
C13_AddAtomic ==
    [][\A g \in Goroutines :
          AddWriteStep(g)
             => \/ regDB.kv[proc[g].id] = NoValue
                \/ regDB'.kv[proc[g].id] = regDB.kv[proc[g].id]]_vars

\* C14: on a readable store, Add(id) for a stored id returns the stored
\* values and writes nothing; for an absent id it stores the defaults and
\* returns them; it changes no other id's entry.
C14_AddEffect ==
    [][\A g \in Goroutines :
          /\ (CallStep(g, "Add") /\ regDB.status = StoreOpen)
                => /\ regDB' = regDB
                   /\ wrote[proc'[g].id].last # "none"
                         => /\ proc'[g].pc = "idle"
                            /\ proc'[g].entry = [id |-> proc'[g].id,
                                                 values |-> wrote[proc'[g].id].values]
                   /\ wrote[proc'[g].id].last = "none" => proc'[g].pc = "addSet"
          /\ (AddWriteStep(g) /\ regDB.status = StoreOpen)
                => /\ regDB' = [regDB EXCEPT !.kv[proc[g].id] = <<FALSE, FALSE>>]
                   /\ proc'[g].entry = [id |-> proc[g].id, values |-> Defaults]]_vars

\* "g2" set "cpu_pct" to registered; "g1" added "mem_used", which was absent
\* and now holds the defaults, then added "cpu_pct" and got the stored
\* values, which are still stored.
C14_Witness ==
    /\ proc["g2"].op = "Set" /\ proc["g2"].id = "cpu_pct"
    /\ proc["g1"].n = 2 /\ proc["g1"].op = "Add" /\ proc["g1"].id = "cpu_pct"
    /\ proc["g1"].pc = "idle" /\ ~proc["g1"].set
    /\ proc["g1"].entry.values = [Registered |-> TRUE, Disabled |-> FALSE]
    /\ regDB.kv["cpu_pct"] = <<TRUE, FALSE>>
    /\ regDB.kv["mem_used"] = <<FALSE, FALSE>>
    /\ wrote["mem_used"].last = "Add"

\* C15: on a readable store, Get(id) returns the not-found error exactly
\* when no Set, Update or Add has written id since the Registry was created
\* or last reset, and otherwise returns the values last written, without
\* error.
C15_GetNotFound ==
    [][\A g \in Goroutines :
          (CallStep(g, "Get") /\ regDB.status = StoreOpen)
             => /\ (proc'[g].err = ErrKeyNotFound) <=> (wrote[proc'[g].id].last = "none")
                /\ wrote[proc'[g].id].last # "none"
                      => /\ proc'[g].err = NoError
                         /\ proc'[g].values = wrote[proc'[g].id].values]_vars

\* "g1" wrote "mem_used" and then got not-found for "cpu_pct", which nobody
\* wrote; "g2" got the values of "mem_used".
C15_Witness ==
    /\ proc["g1"].n = 2 /\ proc["g1"].op = "Get" /\ proc["g1"].id = "cpu_pct"
    /\ proc["g1"].err = ErrKeyNotFound
    /\ wrote["cpu_pct"].last = "none" /\ wrote["mem_used"].last = "Set"
    /\ proc["g2"].op = "Get" /\ proc["g2"].id = "mem_used" /\ proc["g2"].err = NoError
    /\ proc["g2"].values = wrote["mem_used"].values
    /\ proc["g2"].values.Disabled

\* C16: no step of an Add, Get, Set or Update removes a stored ID, and on a
\* readable store a Get of an ID that has been written since the last reset
\* succeeds.
C16_IDsNeverShrink ==
    [][/\ proc' # proc
          => \A id \in IDs : regDB.kv[id] # NoValue => regDB'.kv[id] # NoValue
       /\ \A g \in Goroutines :
             (/\ CallStep(g, "Get")
              /\ regDB.status = StoreOpen
              /\ wrote[proc'[g].id].last # "none")
                => proc'[g].err = NoError]_vars

\* Both IDs are stored, the second written after the first, and a Get of
\* the first still succeeds.
C16_Witness ==
    /\ regDB.kv["cpu_pct"] # NoValue /\ regDB.kv["mem_used"] # NoValue
    /\ proc["g1"].n = 2 /\ proc["g1"].op = "Set" /\ proc["g1"].id = "mem_used"
    /\ proc["g2"].op = "Get" /\ proc["g2"].id = "cpu_pct" /\ proc["g2"].err = NoError

\* C17: an Add that meets a store that cannot be read or written still
\* returns, with an entry that holds the defaults.
C17_FailOpen ==
    \A g \in Goroutines :
       (proc[g].op = "Add" /\ proc[g].err \in {ErrDBClosed, ErrNilDeref})
          => /\ proc[g].pc = "idle"
             /\ proc[g].entry.values = Defaults

\* -------------------------------------------------- MQTT controller properties
\* The elements of seq that are not nil.
NonNil(seq) == SelectSeq(seq, LAMBDA x : x # Nil)

\* C18: Subscriptions() and Configs() hold exactly the results of the
\* entities whose marshaling succeeded: an entity whose marshaling returns
\* an error contributes no element, not even a nil one.
C18_OnlySuccessful ==
    /\ "Subscriptions" \in mqtt.called
          => /\ mqtt.subs = NonNil(mqtt.subs)
             /\ Len(mqtt.subs) = Cardinality({e \in Range(mqtt.buttons) \cup Range(mqtt.numbers)
                                                      \cup Range(mqtt.switches) :
                                                 <<e, "MarshalSubscription">> \notin mqtt.bad})
                                    + Len(mqtt.controls)
    /\ "Configs" \in mqtt.called
          => /\ mqtt.configs = NonNil(mqtt.configs)
             /\ Len(mqtt.configs) = Cardinality({e \in Range(mqtt.sensors) \cup Range(mqtt.buttons)
                                                         \cup Range(mqtt.numbers)
                                                         \cup Range(mqtt.switches)
                                                         \cup Range(mqtt.cameras) :
                                                    <<e, "MarshalConfig">> \notin mqtt.bad})

\* C19: every call of Msgs() returns the one channel made at construction;
\* it is closed at most once, never before the context is cancelled, and
\* eventually once the context is cancelled.
C19_MsgsClosedOnce ==
    /\ [](mqtt.got \subseteq {1})
    /\ [](mqtt.msgs.closes <= 1)
    /\ [](mqtt.msgs.closes > 0 => mqtt.ctxDone)
    /\ (mqtt.ctxDone ~> mqtt.msgs.closes = 1)

\* Msgs() was called before and after the cancellation, and the channel has
\* been closed.
C19_Witness ==
    /\ mqtt.calls = MaxMsgsCalls
    /\ mqtt.got = {1}
    /\ mqtt.ctxDone
    /\ mqtt.msgs.closes = 1

\* ------------------------------------------------------------ Agent properties
\* C20: whichever of an OS signal, a call of Agent.Stop and a failed
\* registration check happen, and in whatever order, close(agent.done) runs
\* at most once and never on a channel that is already closed.
C20_DoneClosedOnce == ag.closes <= 1 /\ ~ag.panicked

\* --------------------------------------------------- shutdown of the Registry
\* C21: once the context given to OpenSensorRegistry is cancelled, the GC
\* goroutine eventually stops and the store is closed, and no GC pass runs
\* on the closed store.
C21_MaintenanceStops ==
    /\ [](~regDB.gcOnClosed)
    /\ (regDB.ctxDone /\ regDB.status # StoreNil)
          ~> (regDB.status = StoreClosed /\ regDB.gc = "stopped")

\* C22: once the registration check at startup has failed, eventually done
\* is closed, the controller context is cancelled and Run has returned.
C22_FailureEndsRun ==
    (ag.checkErr # NoError)
       ~> (ag.done = "closed" /\ ag.ctlCtxDone /\ ag.run = "returned")

\* C23: the Tracker is reset and the Registry wiped only in a forced
\* registration that succeeded, saving included; in every other outcome of
\* the registration check neither reset is performed and the Registry stays
\* as it was; the Tracker's Reset changes no Registry entry.
C23_ResetOnlyWhenForced ==
    /\ []((ag.trkReset \/ ag.regReset # "none")
             => (ag.forceRegister /\ ag.regSaved /\ ag.checkErr = NoError))
    /\ [][/\ regDB' # regDB
             => (ag.forceRegister /\ ag.regSaved /\ ag.trkReset /\ ag'.regReset = "ok")
          /\ (ag'.trkReset /\ ~ag.trkReset) => regDB' = regDB]_vars

\* A forced registration went through: the Tracker was reset, and the
\* Registry, which held the entry of "cpu_pct", is empty.
C23_Witness ==
    /\ ag.check = "exited" /\ ag.checkErr = NoError
    /\ ag.forceRegister /\ ag.trkReset /\ ag.regReset = "ok"
    /\ ag.wiped = {"cpu_pct"}
    /\ regDB.kv["cpu_pct"] = NoValue

\* C28: controllers are set up and the sensor, MQTT and notification
\* runners started only after the registration goroutine has finished, that
\* is after checkRegistration has returned.
C28_SetupAfterRegistration ==
    (ag.setup = "done" \/ ag.running # {} \/ ag.canceller # "none" \/ ag.ctlCtxDone)
       => ag.check = "exited"

\* The registration succeeded and all three runners are running.
C28_Witness ==
    /\ ag.check = "exited" /\ ag.checkErr = NoError /\ ag.regSaved
    /\ ag.setup = "done"
    /\ ag.running = {"runSensorWorkers", "runNotificationsWorker", "runMQTTWorkers"}

\* C29: once the registration check has failed, Run starts no sensor, MQTT
\* or notification runner.
C29_NoWorkersAfterFailure ==
    ag.checkErr # NoError => (ag.setup # "done" /\ ag.running = {})


\* C27: in every reachable state of a controller, ActiveWorkers and
\* InactiveWorkers are disjoint and together are exactly the managed workers,
\* and a call of either leaves every worker's state and update task as it was.
C27_Introspection ==
    /\ [](\A c \in Controllers :
            /\ ActiveWorkers(wstate, c) \cap InactiveWorkers(wstate, c) = {}
            /\ ActiveWorkers(wstate, c) \cup InactiveWorkers(wstate, c) = Managed(c))
    /\ [][(last' # last /\ last'.op \in {"ActiveWorkers", "InactiveWorkers"})
            => (wstate' = wstate /\ tasks' = tasks /\ merged' = merged)]_vars

C27_Witness ==
    /\ last.op = "InactiveWorkers"
    /\ wstate["battery"] = "Stopped"
    /\ wstate["cpu"] = "NotStarted"
    /\ last.list = {"battery", "cpu"}


\* A call of the remote publisher has failed.
PublishFailed == \E w \in Workers : \E k \in 1..Len(log[w]) : log[w][k].res = "failed"

\* Process has looked up and handled snapshot i of w.
Handled(w, i) == \E k \in 1..Len(log[w]) : log[w][k].idx = i

\* C24: a failed call of the remote publisher does not end Process: it stops
\* only on cancellation, every snapshot on its way after a failure is still
\* looked up and handled by the rules of the Registry's entry at that moment,
\* and a sensor is stored as registered only after a registration call that
\* succeeded.
C24_PublishFailureGoesOn ==
    /\ [](trk.state = "stopped" => ctxDone)
    /\ [](\A w \in Workers :
            (Get(regDB, SensorID(w)).err = NoError /\ Get(regDB, SensorID(w)).values.Registered)
                => \E k \in 1..Len(log[w]) : log[w][k].kind = "register" /\ log[w][k].res = "ok")
    /\ [][\A w \in Workers :
            Len(log'[w]) > Len(log[w])
                => log'[w][Len(log'[w])].kind = classify(regDB, SensorID(w))]_vars
    /\ \A w \in Workers : \A i \in 1..MaxEmit :
            (PublishFailed /\ (mslot[w] = i \/ rslot[CtlOf(w)] = <<w, i>>)) ~> Handled(w, i)

C24_Witness ==
    /\ Len(log["cpu"]) = 3
    /\ log["cpu"][1].kind = "register" /\ log["cpu"][1].res = "failed"
    /\ log["cpu"][2].kind = "update" /\ log["cpu"][2].res = "failed"
    /\ log["cpu"][3].kind = "update" /\ log["cpu"][3].res = "ok"
    /\ ~Get(regDB, "cpu_pct").values.Registered
    /\ Len(log["mem"]) = 1
    /\ trk.state = "running"


\* C25: with a worker whose stream neither emits nor closes, every snapshot
\* another worker has emitted is eventually handled by Process, and every
\* started worker gets to emit all its snapshots.
C25_SilentWorker ==
    /\ \A w \in Workers \ {Silent} : \A i \in 1..MaxEmit :
            (mslot[w] = i) ~> Handled(w, i)
    /\ \A w \in Workers \ {Silent} :
            (w \in merged[CtlOf(w)]) ~> (Len(log[w]) = EmitLimit(w))

C25_Witness ==
    /\ Len(tasks[Silent]) = 1 /\ tasks[Silent][1].live /\ tasks[Silent][1].pos = 0
    /\ Silent \in merged[CtlOf(Silent)]
    /\ log[Silent] = <<>>
    /\ \A w \in Workers \ {Silent} : Len(log[w]) = EmitLimit(w)


StopCalls(c) == Cardinality({k \in 1..Len(rw.stopCalls) : rw.stopCalls[k] = c})

\* C30: runWorkers calls StopAll only after the cancellation and at most once
\* on a controller; it returns only when StopAll was called exactly once on
\* every controller, whether or not an earlier StopAll returned an error; and
\* once the context is cancelled it eventually returns.
C30_StopAllOnceEach ==
    /\ [](\A c \in Controllers : StopCalls(c) <= 1)
    /\ [](rw.stopCalls # <<>> => ctxDone)
    /\ [](rw.pc = "Done" => \A c \in Controllers : StopCalls(c) = 1)
    /\ [][rw.stopCalls' # rw.stopCalls => (rw.pc = "Wait" /\ rw'.pc = "Wait")]_vars
    /\ ctxDone ~> (rw.pc = "Done" /\ \A c \in Controllers : StopCalls(c) = 1)

\* The first controller's StopAll returned an error and the second was
\* stopped all the same before runWorkers returned.
C30_Witness ==
    /\ rw.pc = "Done"
    /\ rw.stopCalls = CtlOrder
    /\ CtlOrder[1] \in rw.stopErrs
    /\ \A w \in Managed(CtlOrder[2]) : wstate[w] = "Stopped"


\* C31: a controller whose StartAll returned an error does not keep
\* runWorkers from calling StartAll on the controllers after it; Process is
\* run over the stream of every controller; and with a StartAll error on
\* record every snapshot a started worker has emitted is eventually handled.
C31_StartAllErrorContained ==
    /\ [](rw.pc # "StartAll" => rw.sensorCh = CtlOrder)
    /\ [](trk.state = "running" => trk.readers = Controllers)
    /\ [](\A c \in rw.startErrs : \E w \in Managed(c) : wstate[w] = "NotStarted")
    /\ \A w \in Workers : \A i \in 1..MaxEmit :
            (rw.startErrs # {} /\ mslot[w] = i) ~> Handled(w, i)

\* StartAll of the first controller returned an error ("battery" did not
\* start); "cpu" of the same controller and "mem" of the next one were
\* started and all their snapshots were handled.
C31_Witness ==
    /\ rw.startErrs = {CtlOrder[1]}
    /\ wstate["battery"] = "NotStarted"
    /\ Len(log["cpu"]) = EmitLimit("cpu")
    /\ Len(log["mem"]) = EmitLimit("mem")


\* ------------------------------------------------ the MQTT publish loop
\* C32: the publish loop never calls Publish on the nil message that a
\* receive from the closed Msgs channel returns.
C32_NoNilPublish == ~mqtt.nilPublished

\* C33: no entity's send runs on the Msgs channel once it is closed.
C33_NoSendOnClosed == ~mqtt.sentOnClosed


\* ------------------------------------------------------ checkRegistration
\* C34: for an agent that is registered when Run starts, without forced
\* registration, checkRegistration returns nil and has not called
\* RegisterDevice, not written to the preferences, not reset the Tracker and
\* not reset or changed the Registry.
C34_AlreadyRegistered ==
    /\ []((ag.wasRegistered /\ ~ag.forceRegister)
            => /\ ~ag.contacted /\ ~ag.prefsTouched /\ ag.registered
               /\ ~ag.trkReset /\ ag.regReset = "none" /\ ag.checkErr = NoError
               /\ ag.check \in {"none", "start", "returned", "exited"})
    /\ [][(ag.wasRegistered /\ ~ag.forceRegister) => regDB' = regDB]_vars

\* The registered agent got through the check and its workers run, the
\* stored entry still in the Registry.
C34_Witness ==
    /\ ag.wasRegistered /\ ~ag.forceRegister
    /\ ag.check = "exited"
    /\ ag.running # {}
    /\ regDB.kv["cpu_pct"] # NoValue

\* C35: when checkRegistration has returned an error, prefs.Registered has
\* the value it had before the call.
C35_FailureLeavesUnregistered ==
    (ag.check \in {"returned", "exited"} /\ ag.checkErr # NoError)
        => ag.registered = ag.wasRegistered


\* ---------------------------------------------------------- generateAPIURL
\* C36: generateAPIURL returns the Cloudhook URL when it is set and the Home
\* Assistant URLs are not ignored; otherwise the Remote UI URL followed by the
\* webhook path and the webhook ID when both are set and the URLs are not
\* ignored; otherwise the registration server joined with the webhook path
\* and ID. With IgnoreHassURLs the result always starts from the server.
C36_URLPrecedence ==
    url.called =>
        LET p == url.prefs
            fromServer ==
                IF url.server = BadServer THEN url.out.err = ErrParse
                ELSE /\ url.out.err = NoError
                     /\ url.out.url[1] = url.server /\ url.out.url[2] = WebHookPath
                     /\ (p.WebhookID # "" => url.out.url = <<url.server, WebHookPath, p.WebhookID>>)
        IN /\ (p.CloudhookURL # "" /\ ~p.IgnoreHassURLs)
                => url.out = [url |-> <<p.CloudhookURL>>, err |-> NoError]
           /\ (p.CloudhookURL = "" /\ p.RemoteUIURL # "" /\ p.WebhookID # "" /\ ~p.IgnoreHassURLs)
                => url.out = [url |-> <<p.RemoteUIURL, WebHookPath, p.WebhookID>>, err |-> NoError]
           /\ (p.CloudhookURL = "" /\ (p.RemoteUIURL = "" \/ p.WebhookID = "") /\ ~p.IgnoreHassURLs)
                => fromServer
           /\ p.IgnoreHassURLs => fromServer

\* Both the Cloudhook and the Remote UI URL are set and the Cloudhook URL was
\* returned.
C36_Witness ==
    /\ url.called
    /\ url.prefs.CloudhookURL # "" /\ url.prefs.RemoteUIURL # "" /\ url.prefs.WebhookID # ""
    /\ ~url.prefs.IgnoreHassURLs
    /\ url.out.url = <<url.prefs.CloudhookURL>>


\* ------------------------------------------------- the notifications worker
\* C37: once the context is cancelled, a started handleNotifications
\* eventually returns, whatever it was doing at the cancellation.
C37_HandlerReturns ==
    (notif.ctxDone /\ notif.handler # "none") ~> (notif.handler = "returned")


\* ------------------------------------------------------------ UpgradeConfig
\* C38: UpgradeConfig answers a stored version below v3.0.0 with an
\* UpgradeError and writes nothing; for a stored version from v3.0.0 on,
\* when it returns nil the stored version is the application version, and
\* for a stored version below v5.0.0 the preference migration has run.
C38_UpgradeConfig ==
    (conf.called /\ conf.read # NoVersion) =>
        /\ SemverLess(conf.read, MinUpgradeable)
              => (conf.ret = "UpgradeError" /\ ~conf.wrote)
        /\ (~SemverLess(conf.read, MinUpgradeable) /\ conf.ret = "nil")
              => /\ conf.viper = conf.app
                 /\ SemverLess(conf.read, ViperSwitch) => conf.migrated


\* --------------------------------------------------------------- runScripts
\* C39: once runScripts has started the Tracker, every script with a schedule
\* the scheduler accepts is scheduled and its output stream is among those
\* handed to the Tracker, whether or not a script before it could not be
\* scheduled.
C39_BadScheduleContained ==
    scripts.pc = "wait" =>
        \A k \in 1..Len(scripts.all) :
            (scripts.all[k] # NoSchedule /\ ~addJobErr(scripts.all[k]))
                => (k \in scripts.jobs /\ k \in scripts.streams)


\* ------------------------------------------------------ closing the Registry
\* db.Close() runs at most once on the store.
ClosedAtMostOnce == regDB.closes <= 1

\* No Get, Set, Update or Add meets the store closed.
UnusedOnceClosed == \A g \in Goroutines : proc[g].err # ErrDBClosed

\* C40: over any sequence of cancellation and CloseSensorRegistry calls the
\* store is closed at most once, and no Get, Set, Update or Add is executed
\* against the store after it was closed.
C40_ClosedOnceAndUnused == ClosedAtMostOnce /\ UnusedOnceClosed

====
